---- MODULE Spec2Model ----
(***************************************************************************)
(* Model of the annotation pipeline of texpdfannots/extract.py:            *)
(* getCorrections = getStableAnnots, getAllResponses, then one loop        *)
(* iteration per stable annotation (getResponses, isReplaceAnnot, the      *)
(* Replace promotion, getSelection, the Edit that is appended).            *)
(*                                                                         *)
(* Coordinates are integer points, y grows downwards (pymupdf).  A Rect is *)
(* a record [x0, y0, x1, y1]; a text-line bbox is the 4-tuple the text     *)
(* extraction gives, so bb[4] here is bb[3] of the source.  Python's None  *)
(* is the empty tuple.  An annotation type (n, name) is its name.          *)
(* Caret rectangles of the documents below have an even width, so that     *)
(* width/2 is the integer quotient.                                        *)
(*                                                                         *)
(* And of texpdfedits/segmentsource.py: segment (the parse and its round   *)
(* trip check, the metadata, markNode, the passes of pdflatex on the       *)
(* original and on the marked source, diff-pdf) and getWordBoxes (the loop *)
(* over the lines of the positions file, the count check, the rectangles). *)
(* A string of TeX is the sequence of its tokens, a token being a maximal  *)
(* run of letters, one other character, a whole math formula, a control    *)
(* sequence, or the \begin{name} or \end{name} of an environment.          *)
(***************************************************************************)
EXTENDS Integers, Sequences, FiniteSets, TLC

VARIABLES
    doc,            \* the opened document: pageno -> [line_bbs, annots]
    pc,             \* "stabilize" | "responses" | "correct" | "done" | "error"
    err,            \* the exception that ended the run, "none" while it runs
    pageno,         \* getCorrections: the page the loop is at
    idx,            \* getCorrections: the position the loop is at in stable_annots[pageno]
    stable_annots,  \* pageno -> sequence of Annot
    all_responses,  \* irt_xref -> sequence of references to Annot objects
    corrections,    \* the list of Edits
    tex,            \* segment: the source file, [tex_str, nodelist, newtheorems]
    seg_pc,         \* segment: "parse" | "metadata" | "mark" | "pdflatex_orig" |
                    \*   "pdflatex_marked" | "diffpdf" | "returned" | "exit" | "idle"
    pass_no,        \* runPdflatex: the i of "for i in range(runs)"
    calls,          \* segment: the calls of markNode and the processes run, in order
    marked,         \* segment: <<marked_document, num_marks>>, None before markNode returns
    ret,            \* segment: the value returned, None before
    log_file,       \* getWordBoxes: the lines of the positions file
    wb_pc,          \* getWordBoxes: "read" | "check" | "rectangles" | "returned" |
                    \*   "exit" | "raised" | "idle"
    wb_err,         \* getWordBoxes: the error logged before sys.exit, the exception raised
    line_no,        \* getWordBoxes: the number of the line the loop is at
    word_boxes,     \* getWordBoxes: key -> (label -> values)
    box_order,      \* getWordBoxes: the keys of word_boxes in the order of insertion
    box_idx,        \* getWordBoxes: the position of the loop over word_boxes.items()
    page_rectangles \* getWordBoxes: pageno -> (key -> rectangle)

annotvars == <<doc, pc, err, pageno, idx, stable_annots, all_responses, corrections>>

segvars == <<tex, seg_pc, pass_no, calls, marked, ret>>

boxvars == <<log_file, wb_pc, wb_err, line_no, word_boxes, box_order, box_idx,
             page_rectangles>>

texvars == <<segvars, boxvars>>

vars == <<annotvars, texvars>>

----------------------------------------------------------------------------
(* Constants of extract.py *)

PDF_ANNOT_TEXT == "Text"
PDF_ANNOT_STRIKE_OUT == "StrikeOut"
PDF_ANNOT_CARET == "Caret"
CARET_BUFF == 2
EXTRACT_TEXT_BUFFER_WIDTH == 2

None == <<>>

----------------------------------------------------------------------------
(* Geometry: pymupdf.Rect *)

Rect(x0, y0, x1, y1) == [x0 |-> x0, y0 |-> y0, x1 |-> x1, y1 |-> y1]

RectOfBB(bb) == Rect(bb[1], bb[2], bb[3], bb[4])

Max(a, b) == IF a >= b THEN a ELSE b
Min(a, b) == IF a <= b THEN a ELSE b

is_empty(r) == r.x0 >= r.x1 \/ r.y0 >= r.y1

\* Rect.intersects(x): both rectangles non-empty and their intersection non-empty
RectIntersects(r, s) ==
    /\ ~is_empty(r)
    /\ ~is_empty(s)
    /\ ~is_empty(Rect(Max(r.x0, s.x0), Max(r.y0, s.y0), Min(r.x1, s.x1), Min(r.y1, s.y1)))

width(r) == Max(0, r.x1 - r.x0)

----------------------------------------------------------------------------
(* class Annot, class Edit *)

Annot(_pageno, _type, _info, _xref, _irt_xref, _rect, _intersecting_line_bb) ==
    [pageno |-> _pageno, type |-> _type, info |-> _info, xref |-> _xref,
     irt_xref |-> _irt_xref, rect |-> _rect,
     intersecting_line_bb |-> _intersecting_line_bb]

Edit(_pageno, _type, _message, _selection) ==
    [pageno |-> _pageno, type |-> _type, message |-> _message,
     selection |-> _selection]

----------------------------------------------------------------------------
(* sorted(seq, key = ...): Python's stable sort, as an insertion sort that *)
(* puts each element behind every element whose key is not larger.  The   *)
(* argument is the sequence of <<key, element>> pairs.                    *)

RECURSIVE InsertByKey(_, _)
InsertByKey(x, s) ==
    IF s = <<>> THEN <<x>>
    ELSE IF Head(s)[1] <= x[1]
         THEN <<Head(s)>> \o InsertByKey(x, Tail(s))
         ELSE <<x>> \o s

RECURSIVE SortPairs(_)
SortPairs(s) ==
    IF s = <<>> THEN <<>>
    ELSE InsertByKey(s[Len(s)], SortPairs(SubSeq(s, 1, Len(s) - 1)))

sorted(keyed) ==
    LET pairs == SortPairs(keyed)
    IN  [i \in 1..Len(pairs) |-> pairs[i][2]]

----------------------------------------------------------------------------
(* getStableAnnots: the whole call is one step; it returns stable_annots   *)
(* or raises, and then nothing of what it built is left.                   *)

intersecting_line_bbs(annotRect, line_bbs) ==
    SelectSeq(line_bbs, LAMBDA l: RectIntersects(annotRect, RectOfBB(l)))

\* mutant: the first intersecting line in reading order, unsorted
highest_baseline_bb_First(annotRect, line_bbs) ==
    intersecting_line_bbs(annotRect, line_bbs)[1]

highest_baseline_bb(annotRect, line_bbs) ==
    LET isect == intersecting_line_bbs(annotRect, line_bbs)
    IN  sorted([i \in 1..Len(isect) |-> <<isect[i][4], isect[i]>>])[1]

\* mutant: the Caret is snapped to the whole vertical extent of the line
raisedRect_Snapped(annotRect, bb) == [annotRect EXCEPT !.y0 = bb[2], !.y1 = bb[4]]

\* the Caret rectangle with its lower edge raised to the line's baseline
raisedRect(annotRect, bb) == [annotRect EXCEPT !.y1 = bb[4]]

\* sorted(...)[0] of an empty list: IndexError
StableRaises(annot, line_bbs) ==
    /\ annot.type # PDF_ANNOT_TEXT
    /\ intersecting_line_bbs(annot.rect, line_bbs) = <<>>

StableAnnot(p, annot, line_bbs) ==
    IF annot.type = PDF_ANNOT_TEXT
    THEN Annot(p, annot.type, annot.info, annot.xref, annot.irt_xref, annot.rect, None)
    ELSE LET bb == highest_baseline_bb(annot.rect, line_bbs)
             annotRect == IF annot.type = PDF_ANNOT_CARET
                          THEN raisedRect(annot.rect, bb)
                          ELSE annot.rect
         IN  Annot(p, annot.type, annot.info, annot.xref, annot.irt_xref, annotRect, bb)

StablePage(p) ==
    [i \in 1..Len(doc[p].annots) |-> StableAnnot(p, doc[p].annots[i], doc[p].line_bbs)]

PageRaises(p) ==
    \E i \in 1..Len(doc[p].annots) : StableRaises(doc[p].annots[i], doc[p].line_bbs)

len_doc == Cardinality(DOMAIN doc)

\* mutant: an annotation that is on no line is left out without an error
getStableAnnots_Skipping ==
    /\ pc = "stabilize"
    /\ stable_annots' =
          [p \in DOMAIN doc |->
              LET kept == SelectSeq(doc[p].annots,
                                    LAMBDA a: ~StableRaises(a, doc[p].line_bbs))
              IN  [i \in 1..Len(kept) |-> StableAnnot(p, kept[i], doc[p].line_bbs)]]
    /\ pc' = "responses"
    /\ UNCHANGED <<doc, err, pageno, idx, all_responses, corrections>>
    /\ UNCHANGED texvars

\* what "if draw_boxes:" adds to a page: two FreeText boxes per annotation
\* that is not a Text note, both at the stable rectangle
DrawnBoxes(p) ==
    LET drawn == SelectSeq(StablePage(p), LAMBDA a: a.type # PDF_ANNOT_TEXT)
    IN  [k \in 1..(2 * Len(drawn)) |->
            [type |-> "FreeText", info |-> [content |-> "", creationDate |-> 0],
             xref |-> 100 * (p + 1) + k, irt_xref |-> 0,
             rect |-> drawn[(k + 1) \div 2].rect]]

\* mutant: the call is made with draw_boxes on
getStableAnnots_DrawBoxes ==
    /\ pc = "stabilize"
    /\ IF \E p \in DOMAIN doc : PageRaises(p)
       THEN /\ pc' = "error"
            /\ err' = "IndexError"
            /\ UNCHANGED <<stable_annots, doc>>
       ELSE /\ stable_annots' = [p \in DOMAIN doc |-> StablePage(p)]
            /\ doc' = [p \in DOMAIN doc |->
                          [doc[p] EXCEPT !.annots = @ \o DrawnBoxes(p)]]
            /\ pc' = "responses"
            /\ UNCHANGED err
    /\ UNCHANGED <<pageno, idx, all_responses, corrections>>
    /\ UNCHANGED texvars

getStableAnnots ==
    /\ pc = "stabilize"
    /\ IF \E p \in DOMAIN doc : PageRaises(p)
       THEN /\ pc' = "error"
            /\ err' = "IndexError"
            /\ UNCHANGED stable_annots
       ELSE /\ stable_annots' = [p \in DOMAIN doc |-> StablePage(p)]
            /\ pc' = "responses"
            /\ UNCHANGED err
    /\ UNCHANGED <<doc, pageno, idx, all_responses, corrections>>
    /\ UNCHANGED texvars

----------------------------------------------------------------------------
(* References to Annot objects.  The lists of all_responses hold the very *)
(* objects of stable_annots, so an element is the place <<pageno, i>> of  *)
(* the object and reading it sees every later assignment to its fields.   *)

Deref(ref) == stable_annots[ref[1]][ref[2]]

\* the iteration order of "for pageno, annots in stable_annots.items(): for annot in annots"
RECURSIVE RefsFrom(_)
RefsFrom(p) ==
    IF p >= len_doc THEN <<>>
    ELSE [i \in 1..Len(stable_annots[p]) |-> <<p, i>>] \o RefsFrom(p + 1)

AllRefs == RefsFrom(0)

----------------------------------------------------------------------------
(* getAllResponses: dict[xref] => [annots for which annot.irt_xref == xref] *)

\* mutant: the test "if annot.irt_xref == 0: continue" is missing
AllResponsesOf_KeepingRoots(refs) ==
    LET keys == {Deref(refs[i]).irt_xref : i \in 1..Len(refs)}
    IN  [k \in keys |-> SelectSeq(refs, LAMBDA r: Deref(r).irt_xref = k)]

AllResponsesOf(refs) ==
    LET keys == {Deref(refs[i]).irt_xref : i \in 1..Len(refs)} \ {0}
    IN  [k \in keys |-> SelectSeq(refs, LAMBDA r: Deref(r).irt_xref = k)]

getAllResponses ==
    /\ pc = "responses"
    /\ all_responses' = AllResponsesOf(AllRefs)
    /\ pc' = "correct"
    /\ pageno' = 0
    /\ idx' = 1
    /\ UNCHANGED <<doc, err, stable_annots, corrections>>
    /\ UNCHANGED texvars

----------------------------------------------------------------------------
(* getResponses: dict[type] => the responses to annot of that type, each  *)
(* list sorted by creationDate.  The [] returned for an annotation without *)
(* responses is the mapping with no key: the callers only test membership *)
(* and "== []" on it, and a dict built from a response list has a key.    *)

\* mutant: the responses are left in the order of the pages
SortByCreationDate_Unsorted(refs) == refs

SortByCreationDate(refs) ==
    sorted([i \in 1..Len(refs) |-> <<Deref(refs[i]).info.creationDate, refs[i]>>])

getResponses(annot, responses_map) ==
    IF annot.xref \notin DOMAIN responses_map
    THEN <<>>
    ELSE LET resps == responses_map[annot.xref]
             types == {Deref(resps[i]).type : i \in 1..Len(resps)}
         IN  [t \in types |->
                 SortByCreationDate(SelectSeq(resps, LAMBDA r: Deref(r).type = t))]

\* mutant: the contents of the responses of some type, Text or not
TextResponses_AnyType(responses) ==
    IF DOMAIN responses # {}
    THEN LET t == CHOOSE t \in DOMAIN responses : TRUE
         IN  [i \in 1..Len(responses[t]) |-> Deref(responses[t][i]).info.content]
    ELSE <<>>

\* text_responses = [resp.info['content'] for resp in responses[PDF_ANNOT_TEXT]] or []
TextResponses(responses) ==
    IF PDF_ANNOT_TEXT \in DOMAIN responses
    THEN [i \in 1..Len(responses[PDF_ANNOT_TEXT]) |->
             Deref(responses[PDF_ANNOT_TEXT][i]).info.content]
    ELSE <<>>

Message(annot, responses) ==
    [comment |-> annot.info.content, responses |-> TextResponses(responses)]

----------------------------------------------------------------------------
(* isReplaceAnnot *)

Eligible(ann, ann_resps) ==
    /\ ann.type = PDF_ANNOT_STRIKE_OUT \/ ann.type = PDF_ANNOT_CARET
    /\ DOMAIN ann_resps # {}

\* mutant: the first assertion is missing
isReplaceAsserts_NoSameType(ann, ann_resps) ==
    /\ Eligible(ann, ann_resps)
    /\ Cardinality(DOMAIN ann_resps) > 2

\* mutant: the second assertion is missing
isReplaceAsserts_NoTypeCount(ann, ann_resps) ==
    /\ Eligible(ann, ann_resps)
    /\ ann.type \in DOMAIN ann_resps

\* the two assert statements
isReplaceAsserts(ann, ann_resps) ==
    /\ Eligible(ann, ann_resps)
    /\ \/ ann.type \in DOMAIN ann_resps
       \/ Cardinality(DOMAIN ann_resps) > 2

other_ann_type(ann) ==
    IF ann.type = PDF_ANNOT_CARET THEN PDF_ANNOT_STRIKE_OUT ELSE PDF_ANNOT_CARET

\* mutant: the content of the other annotation is not looked at
isReplaceAnnot_AnyContent(ann, ann_resps) ==
    IF ~Eligible(ann, ann_resps) THEN <<FALSE, None>>
    ELSE IF ~(/\ other_ann_type(ann) \in DOMAIN ann_resps
              /\ Len(ann_resps[other_ann_type(ann)]) = 1)
    THEN <<FALSE, None>>
    ELSE LET other_ann == ann_resps[other_ann_type(ann)][1]
         IN  << RectIntersects(ann.rect, Deref(other_ann).rect), other_ann >>

\* <<is_replace, other_ann>>, other_ann a reference or None
isReplaceAnnot(ann, ann_resps) ==
    IF ~Eligible(ann, ann_resps) THEN <<FALSE, None>>
    ELSE IF ~(/\ other_ann_type(ann) \in DOMAIN ann_resps
              /\ Len(ann_resps[other_ann_type(ann)]) = 1)
    THEN <<FALSE, None>>
    ELSE LET other_ann == ann_resps[other_ann_type(ann)][1]
         IN  << /\ RectIntersects(ann.rect, Deref(other_ann).rect)
                /\ Deref(other_ann).info.content = "",
                other_ann >>

\* mutant: a promoted Caret keeps its own rectangle
Promoted_KeepRect(annot, is_replace, other_ann) ==
    IF is_replace THEN [annot EXCEPT !.type = "Replace"] ELSE annot

\* the annotation after "if is_replace: ..."
Promoted(annot, is_replace, other_ann) ==
    IF is_replace
    THEN [annot EXCEPT !.rect = IF annot.type = PDF_ANNOT_CARET
                                 THEN Deref(other_ann).rect
                                 ELSE @,
                       !.type = "Replace"]
    ELSE annot

----------------------------------------------------------------------------
(* getSelection.  page.get_textbox(rect) is the text the page holds in    *)
(* rect; the selection string is the sequence of its parts, a tag or the  *)
(* text of a rectangle.                                                   *)

NoRect == Rect(0, 0, 0, 0)
get_textbox(rect) == [tok |-> "textbox", name |-> "", rect |-> rect]
OpenTag(name)     == [tok |-> "open",    name |-> name, rect |-> NoRect]
CloseTag(name)    == [tok |-> "close",   name |-> name, rect |-> NoRect]

SpanNames == {"Replace", "StrikeOut", "Highlight", "Underline"}

\* "x0, y0, x1, y1 = ann.intersecting_line_bb" of None: TypeError
getSelectionRaises(ann) == ann.intersecting_line_bb = None

getSelection(ann) ==
    LET buff == EXTRACT_TEXT_BUFFER_WIDTH
        selection_name == ann.type
        x0 == ann.intersecting_line_bb[1]
        y0 == ann.intersecting_line_bb[2]
        x1 == ann.intersecting_line_bb[3]
        y1 == ann.intersecting_line_bb[4]
    IN  IF selection_name = "Caret"
        THEN LET insertion_point_x == ann.rect.x0 + (width(ann.rect) \div 2)
                 left_rect  == Rect(x0, y0, insertion_point_x - CARET_BUFF, y1)
                 right_rect == Rect(insertion_point_x + CARET_BUFF, y0, x1, y1)
             IN  << get_textbox(left_rect), OpenTag("Caret"), CloseTag("Caret"),
                    get_textbox(right_rect) >>
        ELSE IF selection_name \in SpanNames
        THEN LET left_rect   == Rect(x0, y0, ann.rect.x0 - buff, y1)
                 middle_rect == Rect(ann.rect.x0 + (buff \div 2), y0,
                                     ann.rect.x1 - (buff \div 2), y1)
                 right_rect  == Rect(ann.rect.x1 + buff, y0, x1, y1)
             IN  << get_textbox(left_rect), OpenTag(selection_name),
                    get_textbox(middle_rect), CloseTag(selection_name),
                    get_textbox(right_rect) >>
        ELSE None

----------------------------------------------------------------------------
(* getCorrections: one step per iteration of the inner loop that gets    *)
(* past "if annot.irt_xref != 0: continue", then the return.              *)

\* mutant: responses are not skipped
IsRoot_Always(annot) == TRUE

IsRoot(annot) == annot.irt_xref = 0

\* the next place at or after <<p, i>> that holds a root, or None
RECURSIVE NextPlace(_, _)
NextPlace(p, i) ==
    IF p >= len_doc THEN None
    ELSE IF i > Len(stable_annots[p]) THEN NextPlace(p + 1, 1)
    ELSE IF IsRoot(stable_annots[p][i]) THEN <<p, i>>
    ELSE NextPlace(p, i + 1)

\* mutant: the Edit is put before the Edits made so far
CorrectAnnot_Prepending(p, i) ==
    LET annot     == stable_annots[p][i]
        responses == getResponses(annot, all_responses)
        message   == Message(annot, responses)
        decision  == isReplaceAnnot(annot, responses)
        promoted  == Promoted(annot, decision[1], decision[2])
    IN  IF isReplaceAsserts(annot, responses)
        THEN /\ pc' = "error"
             /\ err' = "AssertionError"
             /\ UNCHANGED <<pageno, idx, stable_annots, corrections>>
        ELSE IF getSelectionRaises(promoted)
        THEN /\ pc' = "error"
             /\ err' = "TypeError"
             /\ stable_annots' = [stable_annots EXCEPT ![p][i] = promoted]
             /\ UNCHANGED <<pageno, idx, corrections>>
        ELSE /\ stable_annots' = [stable_annots EXCEPT ![p][i] = promoted]
             /\ corrections' =
                    <<Edit(promoted.pageno, promoted.type, message, getSelection(promoted))>>
                        \o corrections
             /\ pageno' = p
             /\ idx' = i + 1
             /\ UNCHANGED <<pc, err>>

CorrectAnnot(p, i) ==
    LET annot     == stable_annots[p][i]
        responses == getResponses(annot, all_responses)
        message   == Message(annot, responses)
        decision  == isReplaceAnnot(annot, responses)
        promoted  == Promoted(annot, decision[1], decision[2])
    IN  IF isReplaceAsserts(annot, responses)
        THEN /\ pc' = "error"
             /\ err' = "AssertionError"
             /\ UNCHANGED <<pageno, idx, stable_annots, corrections>>
        ELSE IF getSelectionRaises(promoted)
        THEN /\ pc' = "error"
             /\ err' = "TypeError"
             /\ stable_annots' = [stable_annots EXCEPT ![p][i] = promoted]
             /\ UNCHANGED <<pageno, idx, corrections>>
        ELSE /\ stable_annots' = [stable_annots EXCEPT ![p][i] = promoted]
             /\ corrections' = Append(corrections,
                    Edit(promoted.pageno, promoted.type, message, getSelection(promoted)))
             /\ pageno' = p
             /\ idx' = i + 1
             /\ UNCHANGED <<pc, err>>

getCorrections ==
    /\ pc = "correct"
    /\ NextPlace(pageno, idx) # None
    /\ CorrectAnnot(NextPlace(pageno, idx)[1], NextPlace(pageno, idx)[2])
    /\ UNCHANGED <<doc, all_responses>>
    /\ UNCHANGED texvars

Return ==
    /\ pc = "correct"
    /\ NextPlace(pageno, idx) = None
    /\ pc' = "done"
    /\ UNCHANGED <<doc, err, pageno, idx, stable_annots, all_responses, corrections>>
    /\ UNCHANGED texvars

Next == getStableAnnots \/ getAllResponses \/ getCorrections \/ Return

----------------------------------------------------------------------------
(* Constants of segmentsource.py *)

ALLOWED_MARK_ENVIRONMENTS ==
    {"proof", "enumerate", "itemize", "document", "thebibliography",
     "biblist", "bibdiv", "bibsec"}

\* runPdflatex(..., runs: int = 2)
RUNS == 2

----------------------------------------------------------------------------
(* Strings of TeX and the nodes of pylatexenc.  A token of the source has  *)
(* its text in s (and the environment name in name); the \markbox{id}{arg} *)
(* that markStr writes is the token with s = "\\markbox", the id being the *)
(* counter value n behind an "m" when m is set.                            *)

Tok(s) == [s |-> s, name |-> "", m |-> FALSE, n |-> 0, arg |-> <<>>]

BeginTok(envname) == [s |-> "\\begin", name |-> envname, m |-> FALSE, n |-> 0, arg |-> <<>>]
EndTok(envname)   == [s |-> "\\end",   name |-> envname, m |-> FALSE, n |-> 0, arg |-> <<>>]

\* ''.join(strings)
RECURSIVE join(_)
join(strings) ==
    IF strings = <<>> THEN <<>> ELSE Head(strings) \o join(Tail(strings))

Node(kind, envname, displaytype, nodelist, verbatim) ==
    [kind |-> kind, envname |-> envname, displaytype |-> displaytype,
     nodelist |-> nodelist, verbatim |-> verbatim]

latex_verbatim(node) == node.verbatim

LatexCharsNode(toks)   == Node("chars", "", "", <<>>, toks)
LatexMacroNode(name)   == Node("macro", "", "", <<>>, <<Tok(name)>>)
LatexMathNode(displaytype, toks) == Node("math", "", displaytype, <<>>, toks)
LatexCommentNode(toks) == Node("comment", "", "", <<>>, toks)
LatexGroupNode(nodelist) ==
    Node("group", "", "", nodelist,
         <<Tok("{")>> \o join([i \in 1..Len(nodelist) |-> nodelist[i].verbatim]) \o <<Tok("}")>>)

\* an environment as the source writes it, \begin{name} ... \end{name}
LatexEnvironmentNode(envname, nodelist) ==
    Node("env", envname, "", nodelist,
         <<BeginTok(envname)>> \o join([i \in 1..Len(nodelist) |-> nodelist[i].verbatim])
            \o <<EndTok(envname)>>)

\* an environment the source never closes: the parser ends it at the end
\* of the input, and its verbatim has no \end
UnclosedEnvironmentNode(envname, nodelist) ==
    Node("env", envname, "", nodelist,
         <<BeginTok(envname)>> \o join([i \in 1..Len(nodelist) |-> nodelist[i].verbatim]))

----------------------------------------------------------------------------
(* markNode.  The counter is count(0); recMark gives the marked string,    *)
(* the counter after it, and whether it ended in sys.exit(1).              *)

Whitespace == {" ", "\n", "\t"}

Letters == {"alpha", "beta", "gamma", "delta", "eta", "theta", "iota", "kappa",
            "lam", "zeta"}

\* rf'\markbox{{{"m" if is_inline_math else ""}{next(counter)}}}{{{string}}}'
markStr(string, is_inline_math, counter) ==
    [s |-> "\\markbox", name |-> "", m |-> is_inline_math, n |-> counter, arg |-> string]

\* mutant: [a-zA-Z]+ alone, without the blanks the pattern looks for around it
IsMatch_AnyLetters(verb_str, i) == verb_str[i].s \in Letters

\* the matches of (?<=[\t\n ])\b[a-zA-Z]+\b(?=[\t\n ]) in verb_str: a run of
\* letters with a blank on either side
IsMatch(verb_str, i) ==
    /\ verb_str[i].s \in Letters
    /\ i > 1
    /\ verb_str[i - 1].s \in Whitespace
    /\ i < Len(verb_str)
    /\ verb_str[i + 1].s \in Whitespace

\* re.subn from token i on, the counter being at c: <<marked_str, counter>>
RECURSIVE subn(_, _, _)
subn(verb_str, i, c) ==
    IF i > Len(verb_str) THEN <<(<<>>), c>>
    ELSE IF IsMatch(verb_str, i)
         THEN LET rest == subn(verb_str, i + 1, c + 1)
              IN  << <<markStr(<<verb_str[i]>>, FALSE, c)>> \o rest[1], rest[2] >>
         ELSE LET rest == subn(verb_str, i + 1, c)
              IN  << <<verb_str[i]>> \o rest[1], rest[2] >>

Marked(out, c, exit) == [out |-> out, c |-> c, exit |-> exit]

RECURSIVE recMark(_, _, _), recMarkList(_, _, _)

\* mutant: every environment is recursed into, allow-listed or not
recMark_AllEnvironments(node, allowed_environments, c) ==
    IF node.kind = "env"
    THEN LET verbatim_contents ==
                 join([i \in 1..Len(node.nodelist) |-> latex_verbatim(node.nodelist[i])])
             reconstructed_whole ==
                 <<BeginTok(node.envname)>> \o verbatim_contents \o <<EndTok(node.envname)>>
         IN  IF latex_verbatim(node) # reconstructed_whole
             THEN Marked(<<>>, c, TRUE)
             ELSE LET r == recMarkList(node.nodelist, allowed_environments, c)
                  IN  Marked(<<BeginTok(node.envname)>> \o r.out \o <<EndTok(node.envname)>>,
                             r.c, r.exit)
    ELSE IF node.kind = "math" /\ node.displaytype = "inline"
    THEN Marked(<<markStr(latex_verbatim(node), TRUE, c)>>, c + 1, FALSE)
    ELSE IF node.kind = "chars"
    THEN LET r == subn(latex_verbatim(node), 1, c) IN Marked(r[1], r[2], FALSE)
    ELSE Marked(latex_verbatim(node), c, FALSE)

\* mutant: the words and the inline formulas are numbered by two counters,
\* the count returned being that of the words
recMark_TwoCounters(node, allowed_environments, c) ==
    IF node.kind = "env"
    THEN LET verbatim_contents ==
                 join([i \in 1..Len(node.nodelist) |-> latex_verbatim(node.nodelist[i])])
             reconstructed_whole ==
                 <<BeginTok(node.envname)>> \o verbatim_contents \o <<EndTok(node.envname)>>
         IN  IF latex_verbatim(node) # reconstructed_whole
             THEN Marked(<<>>, c, TRUE)
             ELSE IF node.envname \in allowed_environments
             THEN LET r == recMarkList(node.nodelist, allowed_environments, c)
                  IN  Marked(<<BeginTok(node.envname)>> \o r.out \o <<EndTok(node.envname)>>,
                             r.c, r.exit)
             ELSE Marked(reconstructed_whole, c, FALSE)
    ELSE IF node.kind = "math" /\ node.displaytype = "inline"
    THEN Marked(<<markStr(latex_verbatim(node), TRUE, 0)>>, c, FALSE)
    ELSE IF node.kind = "chars"
    THEN LET r == subn(latex_verbatim(node), 1, c) IN Marked(r[1], r[2], FALSE)
    ELSE Marked(latex_verbatim(node), c, FALSE)

recMark(node, allowed_environments, c) ==
    IF node.kind = "env"
    THEN LET verbatim_contents ==
                 join([i \in 1..Len(node.nodelist) |-> latex_verbatim(node.nodelist[i])])
             reconstructed_whole ==
                 <<BeginTok(node.envname)>> \o verbatim_contents \o <<EndTok(node.envname)>>
         IN  IF latex_verbatim(node) # reconstructed_whole
             THEN Marked(<<>>, c, TRUE)
             ELSE IF node.envname \in allowed_environments
             THEN LET r == recMarkList(node.nodelist, allowed_environments, c)
                  IN  Marked(<<BeginTok(node.envname)>> \o r.out \o <<EndTok(node.envname)>>,
                             r.c, r.exit)
             ELSE Marked(reconstructed_whole, c, FALSE)
    ELSE IF node.kind = "macro"
    THEN Marked(latex_verbatim(node), c, FALSE)
    ELSE IF node.kind = "math"
    THEN IF node.displaytype = "inline"
         THEN Marked(<<markStr(latex_verbatim(node), TRUE, c)>>, c + 1, FALSE)
         ELSE Marked(latex_verbatim(node), c, FALSE)
    ELSE IF node.kind = "chars"
    THEN LET r == subn(latex_verbatim(node), 1, c) IN Marked(r[1], r[2], FALSE)
    ELSE IF node.kind = "group"
    THEN Marked(latex_verbatim(node), c, FALSE)
    ELSE Marked(latex_verbatim(node), c, FALSE)

\* "for nested_node in node.nodelist: marked_contents += recMark(nested_node)";
\* sys.exit in a nested node ends the loop
recMarkList(nodelist, allowed_environments, c) ==
    IF nodelist = <<>> THEN Marked(<<>>, c, FALSE)
    ELSE LET first == recMark(Head(nodelist), allowed_environments, c)
         IN  IF first.exit THEN first
             ELSE LET rest == recMarkList(Tail(nodelist), allowed_environments, first.c)
                  IN  Marked(first.out \o rest.out, rest.c, rest.exit)

\* "return recMark(latex_node), next(counter)"
markNode(latex_node, allowed_environments) == recMark(latex_node, allowed_environments, 0)

----------------------------------------------------------------------------
(* getEnunciations, get_preamble_and_document *)

\* a \newtheorem is the sequence of its arguments as TexSoup gives them
getEnunciationsExits(newtheorems) ==
    \E i \in 1..Len(newtheorems) : Len(newtheorems[i]) < 1

getEnunciations(newtheorems) ==
    {newtheorems[i][1] : i \in 1..Len(newtheorems)}

num_document_envs(nodelist) ==
    Cardinality({i \in 1..Len(nodelist) :
                    nodelist[i].kind = "env" /\ nodelist[i].envname = "document"})

\* "while nodelist[i].nodeType() != LatexEnvironmentNode: i += 1", i from 1
RECURSIVE FirstEnvironment(_, _)
FirstEnvironment(nodelist, i) ==
    IF nodelist[i].kind # "env" THEN FirstEnvironment(nodelist, i + 1) ELSE i

get_preamble_and_document(nodelist) ==
    LET i == FirstEnvironment(nodelist, 1)
    IN  [preamble_nodes |-> SubSeq(nodelist, 1, i - 1), document_node |-> nodelist[i]]

----------------------------------------------------------------------------
(* segment: one step for the code up to the round trip check, one for the  *)
(* metadata, one for the marking, one for each process it runs; a process  *)
(* ends with the return code the system gives it.                          *)

Call(name, basename, pass, returncode) ==
    [call |-> name, file |-> basename, pass |-> pass, returncode |-> returncode]

\* tex_write_commands + markbox_def, the text segment puts before the document
MarkDefinitions == <<Tok("\\newwrite\\markfile"), Tok("\\newcommand{\\markbox}")>>

\* mutant: the parse is trusted, the round trip is not checked
LatexWalkerParse_Unchecked ==
    /\ seg_pc = "parse"
    /\ seg_pc' = "metadata"
    /\ UNCHANGED <<tex, pass_no, calls, marked, ret>>
    /\ UNCHANGED <<annotvars, boxvars>>

LatexWalkerParse ==
    /\ seg_pc = "parse"
    /\ seg_pc' = IF join([i \in 1..Len(tex.nodelist) |-> latex_verbatim(tex.nodelist[i])])
                     # tex.tex_str
                 THEN "exit" ELSE "metadata"
    /\ UNCHANGED <<tex, pass_no, calls, marked, ret>>
    /\ UNCHANGED <<annotvars, boxvars>>

ExtractMetadata ==
    /\ seg_pc = "metadata"
    /\ seg_pc' = IF getEnunciationsExits(tex.newtheorems) THEN "exit"
                 ELSE IF num_document_envs(tex.nodelist) # 1 THEN "exit"
                 ELSE "mark"
    /\ UNCHANGED <<tex, pass_no, calls, marked, ret>>
    /\ UNCHANGED <<annotvars, boxvars>>

InsertMarks ==
    /\ seg_pc = "mark"
    /\ LET documentNode == get_preamble_and_document(tex.nodelist).document_node
           r == markNode(documentNode,
                         ALLOWED_MARK_ENVIRONMENTS \cup getEnunciations(tex.newtheorems))
       IN  /\ calls' = Append(calls, Call("markNode", "", 0, 0))
           /\ IF r.exit
              THEN /\ seg_pc' = "exit"
                   /\ UNCHANGED <<marked, pass_no>>
              ELSE /\ marked' = <<r.out, r.c>>
                   /\ seg_pc' = "pdflatex_orig"
                   /\ pass_no' = 0
    /\ UNCHANGED <<tex, ret>>
    /\ UNCHANGED <<annotvars, boxvars>>

marked_tex ==
    LET preambleNodes == get_preamble_and_document(tex.nodelist).preamble_nodes
        preamble_str == join([i \in 1..Len(preambleNodes) |-> latex_verbatim(preambleNodes[i])])
    IN  preamble_str \o MarkDefinitions \o marked[1]

\* mutant: a pass that fails is logged and the loop goes on
runPdflatex_GoingOn ==
    /\ seg_pc \in {"pdflatex_orig", "pdflatex_marked"}
    /\ \E returncode \in {0, 1} :
          /\ calls' = Append(calls,
                 Call("pdflatex", IF seg_pc = "pdflatex_orig" THEN "orig" ELSE "marked",
                      pass_no + 1, returncode))
          /\ IF pass_no + 1 < RUNS
             THEN pass_no' = pass_no + 1 /\ UNCHANGED seg_pc
             ELSE /\ pass_no' = 0
                  /\ seg_pc' = IF seg_pc = "pdflatex_orig" THEN "pdflatex_marked" ELSE "diffpdf"
    /\ UNCHANGED <<tex, marked, ret>>
    /\ UNCHANGED <<annotvars, boxvars>>

\* one pass of the loop of runPdflatex, on the original or on the marked file
runPdflatex ==
    /\ seg_pc \in {"pdflatex_orig", "pdflatex_marked"}
    /\ \E returncode \in {0, 1} :
          /\ calls' = Append(calls,
                 Call("pdflatex", IF seg_pc = "pdflatex_orig" THEN "orig" ELSE "marked",
                      pass_no + 1, returncode))
          /\ IF returncode # 0
             THEN seg_pc' = "exit" /\ UNCHANGED pass_no
             ELSE IF pass_no + 1 < RUNS
             THEN pass_no' = pass_no + 1 /\ UNCHANGED seg_pc
             ELSE /\ pass_no' = 0
                  /\ seg_pc' = IF seg_pc = "pdflatex_orig" THEN "pdflatex_marked" ELSE "diffpdf"
    /\ UNCHANGED <<tex, marked, ret>>
    /\ UNCHANGED <<annotvars, boxvars>>

\* runDiffpdf and, when it returns, "return marked_tex, ..., num_marks"
runDiffpdf ==
    /\ seg_pc = "diffpdf"
    /\ \E returncode \in {0, 1} :
          /\ calls' = Append(calls, Call("diff-pdf", "orig marked", 1, returncode))
          /\ IF returncode # 0
             THEN seg_pc' = "exit" /\ UNCHANGED ret
             ELSE seg_pc' = "returned" /\ ret' = <<marked_tex, marked[2]>>
    /\ UNCHANGED <<tex, pass_no, marked>>
    /\ UNCHANGED <<annotvars, boxvars>>

NextSegment ==
    LatexWalkerParse \/ ExtractMetadata \/ InsertMarks \/ runPdflatex \/ runDiffpdf

\* no run of segment
SegIdle ==
    /\ tex = None
    /\ seg_pc = "idle"
    /\ pass_no = 0
    /\ calls = <<>>
    /\ marked = None
    /\ ret = None

\* no run of getCorrections
AnnotIdle ==
    /\ doc = <<>>
    /\ pc = "idle"
    /\ err = "none"
    /\ pageno = 0
    /\ idx = 1
    /\ stable_annots = <<>>
    /\ all_responses = <<>>
    /\ corrections = <<>>

----------------------------------------------------------------------------
(* getWordBoxes.  A line of the positions file is the record of what is   *)
(* between its colons: nfields of them, the first three and the three      *)
(* values; a blank line has none.  Lengths are whole numbers: a position   *)
(* is a number of scaled points, a length in TeX points (the value of a    *)
(* decimal such as 3.00375pt) is counted in 1/TEX_POINT of a point, a      *)
(* length in PDF points in 1/PDF_POINT of a point, so that the ratio       *)
(* 72/72.27 = 800/803 and the products with it are exact.  The code takes  *)
(* the products in double precision; the lengths of the files below are    *)
(* lengths for which the doubles compare as the exact values do.           *)

SCALED_POINTS_PER_TEX_POINT == 65536
RATIO_NUMERATOR == 800
RATIO_DENOMINATOR == 803
PDF_POINT == RATIO_DENOMINATOR * SCALED_POINTS_PER_TEX_POINT
TEX_POINT == 25 * SCALED_POINTS_PER_TEX_POINT
WORD_BOX_WIDTH_TOLERANCE == 1 * PDF_POINT

Labels == {"pwhd", "spxy", "epxy"}

\* the strings that read m?\d+
KeyNames == {"0", "m1", "2", "3", "m4"}

Line(key, label, page, v1, v2, v3) ==
    [nfields |-> 6, key |-> key, label |-> label, page |-> page,
     v1 |-> v1, v2 |-> v2, v3 |-> v3]

BlankLine == [nfields |-> 0, key |-> "", label |-> "", page |-> 0, v1 |-> 0, v2 |-> 0, v3 |-> 0]

\* f.readline().strip(): '' at the end of the file and for a blank line
readline(f, n) == IF n > Len(f) THEN BlankLine ELSE f[n]

\* re.match(^(m?\d+):(pwhd|spxy|epxy):(\d+):([^:]*):([^:]*):([^:]*)$, line)
box_info(line) ==
    /\ line.nfields = 6
    /\ line.key \in KeyNames
    /\ line.label \in Labels
    /\ line.page >= 0

\* values: the page and the three values, 'pt' stripped
ValuesOf(line) == <<line.page, line.v1, line.v2, line.v3>>

\* tex_pts * TEX_POINTS_TO_PDF_POINTS_CONVERSION_RATIO
texPointsToPDFpoints(tex_pts) ==
    tex_pts * ((RATIO_NUMERATOR * (PDF_POINT \div RATIO_DENOMINATOR)) \div TEX_POINT)

\* tex_pts = sp / SCALED_POINTS_PER_TEX_POINT
scaledPointsToPDFpoints(sp) ==
    texPointsToPDFpoints(sp * (TEX_POINT \div SCALED_POINTS_PER_TEX_POINT))

\* float(pts) of a length written in points
unzipHbox(hbox) ==
    << hbox[1], << texPointsToPDFpoints(hbox[2]),
                   texPointsToPDFpoints(hbox[3]),
                   texPointsToPDFpoints(hbox[4]) >> >>

\* stend_xy[1:-1]: the x and the y, in scaled points
unzipPos(stend_xy) ==
    << stend_xy[1], << scaledPointsToPDFpoints(stend_xy[2]),
                       scaledPointsToPDFpoints(stend_xy[3]) >> >>

abs(x) == IF x < 0 THEN -x ELSE x

\* mutant: a unit at the tolerance is ignored as well
boxinfoToPDFRectangle_Strict(key, hbox, start_xy, end_xy) ==
    LET pgB    == unzipPos(start_xy)[1]
        pgC    == unzipPos(end_xy)[1]
        width_ == unzipHbox(hbox)[2][1]
        height == unzipHbox(hbox)[2][2]
        depth  == unzipHbox(hbox)[2][3]
        x0     == unzipPos(start_xy)[2][1]
        sy     == unzipPos(start_xy)[2][2]
        x1     == unzipPos(end_xy)[2][1]
        ey     == unzipPos(end_xy)[2][2]
    IN  IF pgB # pgC THEN None
        ELSE IF sy # ey THEN None
        ELSE IF abs(x0 + width_ - x1) >= WORD_BOX_WIDTH_TOLERANCE THEN None
        ELSE <<pgB, <<x0, sy + height, x1, sy - depth>>>>

\* None, or <<page, <<x0, y0, x1, y1>>>>
boxinfoToPDFRectangle(key, hbox, start_xy, end_xy) ==
    LET pgB    == unzipPos(start_xy)[1]
        pgC    == unzipPos(end_xy)[1]
        width_ == unzipHbox(hbox)[2][1]
        height == unzipHbox(hbox)[2][2]
        depth  == unzipHbox(hbox)[2][3]
        x0     == unzipPos(start_xy)[2][1]
        sy     == unzipPos(start_xy)[2][2]
        x1     == unzipPos(end_xy)[2][1]
        ey     == unzipPos(end_xy)[2][2]
    IN  IF pgB # pgC THEN None
        ELSE IF sy # ey THEN None
        ELSE IF abs(x0 + width_ - x1) > WORD_BOX_WIDTH_TOLERANCE THEN None
        ELSE <<pgB, <<x0, sy + height, x1, sy - depth>>>>

\* mutant: a label that is already there is written over
ReadLine_Overwriting ==
    /\ wb_pc = "read"
    /\ LET line == readline(log_file, line_no)
       IN  IF line.nfields = 0
           THEN /\ wb_pc' = "check"
                /\ UNCHANGED <<wb_err, line_no, word_boxes, box_order>>
           ELSE IF ~box_info(line)
           THEN /\ wb_pc' = "exit"
                /\ wb_err' = "no match"
                /\ UNCHANGED <<line_no, word_boxes, box_order>>
           ELSE IF line.key \in DOMAIN word_boxes
           THEN /\ word_boxes' = [word_boxes EXCEPT ![line.key] =
                                     (line.label :> ValuesOf(line)) @@ @]
                /\ line_no' = line_no + 1
                /\ UNCHANGED <<wb_pc, wb_err, box_order>>
           ELSE /\ word_boxes' = (line.key :> (line.label :> ValuesOf(line))) @@ word_boxes
                /\ box_order' = Append(box_order, line.key)
                /\ line_no' = line_no + 1
                /\ UNCHANGED <<wb_pc, wb_err>>
    /\ UNCHANGED <<log_file, box_idx, page_rectangles>>
    /\ UNCHANGED <<annotvars, segvars>>

\* one iteration of "while line:", or the end of the loop
ReadLine ==
    /\ wb_pc = "read"
    /\ LET line == readline(log_file, line_no)
       IN  IF line.nfields = 0
           THEN /\ wb_pc' = "check"
                /\ UNCHANGED <<wb_err, line_no, word_boxes, box_order>>
           ELSE IF ~box_info(line)
           THEN /\ wb_pc' = "exit"
                /\ wb_err' = "no match"
                /\ UNCHANGED <<line_no, word_boxes, box_order>>
           ELSE IF line.key \in DOMAIN word_boxes
           THEN IF line.label \in DOMAIN word_boxes[line.key]
                THEN /\ wb_pc' = "exit"
                     /\ wb_err' = "label already in"
                     /\ UNCHANGED <<line_no, word_boxes, box_order>>
                ELSE /\ word_boxes' = [word_boxes EXCEPT ![line.key] =
                                          (line.label :> ValuesOf(line)) @@ @]
                     /\ line_no' = line_no + 1
                     /\ UNCHANGED <<wb_pc, wb_err, box_order>>
           ELSE /\ word_boxes' = (line.key :> (line.label :> ValuesOf(line))) @@ word_boxes
                /\ box_order' = Append(box_order, line.key)
                /\ line_no' = line_no + 1
                /\ UNCHANGED <<wb_pc, wb_err>>
    /\ UNCHANGED <<log_file, box_idx, page_rectangles>>
    /\ UNCHANGED <<annotvars, segvars>>

\* all(filter(lambda x: x == 3, map(lambda d: len(d), list(word_boxes.values()))))
all_filter_3 ==
    LET lens == [i \in 1..Len(box_order) |-> Cardinality(DOMAIN word_boxes[box_order[i]])]
        threes == SelectSeq(lens, LAMBDA x: x = 3)
    IN  \A i \in 1..Len(threes) : threes[i] # 0

\* "if not all(filter(...)): sys.exit(1)"
CheckCounts ==
    /\ wb_pc = "check"
    /\ IF ~all_filter_3
       THEN wb_pc' = "exit" /\ wb_err' = "differed from spec"
       ELSE wb_pc' = "rectangles" /\ UNCHANGED wb_err
    /\ UNCHANGED <<log_file, line_no, word_boxes, box_order, box_idx, page_rectangles>>
    /\ UNCHANGED <<annotvars, segvars>>

\* mutant: the page of the file is the key, not the page before it
ComputeRectangle_OneIndexed ==
    /\ wb_pc = "rectangles"
    /\ box_idx <= Len(box_order)
    /\ LET key  == box_order[box_idx]
           info == word_boxes[key]
       IN  IF ~(Labels \subseteq DOMAIN info)
           THEN /\ wb_pc' = "raised"
                /\ wb_err' = "KeyError"
                /\ UNCHANGED <<box_idx, page_rectangles>>
           ELSE LET res == boxinfoToPDFRectangle(key, info["pwhd"], info["spxy"], info["epxy"])
                IN  /\ IF res = None
                       THEN UNCHANGED page_rectangles
                       ELSE LET pageno_ == res[1]
                            IN  page_rectangles' =
                                  IF pageno_ \in DOMAIN page_rectangles
                                  THEN [page_rectangles EXCEPT ![pageno_] = (key :> res[2]) @@ @]
                                  ELSE (pageno_ :> (key :> res[2])) @@ page_rectangles
                    /\ box_idx' = box_idx + 1
                    /\ UNCHANGED <<wb_pc, wb_err>>
    /\ UNCHANGED <<log_file, line_no, word_boxes, box_order>>
    /\ UNCHANGED <<annotvars, segvars>>

\* one iteration of "for key, info in word_boxes.items():"
ComputeRectangle ==
    /\ wb_pc = "rectangles"
    /\ box_idx <= Len(box_order)
    /\ LET key  == box_order[box_idx]
           info == word_boxes[key]
       IN  IF ~(Labels \subseteq DOMAIN info)
           THEN /\ wb_pc' = "raised"
                /\ wb_err' = "KeyError"
                /\ UNCHANGED <<box_idx, page_rectangles>>
           ELSE LET res == boxinfoToPDFRectangle(key, info["pwhd"], info["spxy"], info["epxy"])
                IN  /\ IF res = None
                       THEN UNCHANGED page_rectangles
                       ELSE LET pageno_ == res[1] - 1
                            IN  page_rectangles' =
                                  IF pageno_ \in DOMAIN page_rectangles
                                  THEN [page_rectangles EXCEPT ![pageno_] = (key :> res[2]) @@ @]
                                  ELSE (pageno_ :> (key :> res[2])) @@ page_rectangles
                    /\ box_idx' = box_idx + 1
                    /\ UNCHANGED <<wb_pc, wb_err>>
    /\ UNCHANGED <<log_file, line_no, word_boxes, box_order>>
    /\ UNCHANGED <<annotvars, segvars>>

\* "return page_rectangles"
ReturnRectangles ==
    /\ wb_pc = "rectangles"
    /\ box_idx > Len(box_order)
    /\ wb_pc' = "returned"
    /\ UNCHANGED <<log_file, wb_err, line_no, word_boxes, box_order, box_idx, page_rectangles>>
    /\ UNCHANGED <<annotvars, segvars>>

NextWordBoxes == ReadLine \/ CheckCounts \/ ComputeRectangle \/ ReturnRectangles

\* no run of getWordBoxes
BoxIdle ==
    /\ log_file = <<>>
    /\ wb_pc = "idle"
    /\ wb_err = "none"
    /\ line_no = 1
    /\ word_boxes = <<>>
    /\ box_order = <<>>
    /\ box_idx = 1
    /\ page_rectangles = <<>>

\* no run of segment or getWordBoxes
TexIdle == SegIdle /\ BoxIdle

----------------------------------------------------------------------------
(* The documents getCorrections is run on.  A document has NumPages pages; *)
(* its annotations are numbered 1..n by xref (a PDF object number, unique  *)
(* in the document) and dealt to the pages in turn, so that responses land *)
(* on the page of their root and on other pages.                           *)

MaxAnnots == 4
NumPages == 2

L1 == <<0, 0, 100, 10>>
L2 == <<0, 12, 100, 22>>

StrikeRect   == Rect(10, 2, 30, 9)      \* on line L1
StrikeRect2  == Rect(10, 13, 30, 21)    \* on line L2
CaretRect    == Rect(20, 6, 24, 14)     \* inside StrikeRect, overshoots L1 into L2
CaretFarRect == Rect(60, 6, 64, 14)     \* on L1 and L2, away from StrikeRect
HighRect     == Rect(40, 2, 50, 9)      \* on line L1
OffRect      == Rect(10, 30, 20, 40)    \* on no line
NoteRect     == Rect(90, 30, 95, 35)    \* the icon of a Text note, on no line

Choice(type, content, creationDate, rect, irt_xref) ==
    [type |-> type, content |-> content, creationDate |-> creationDate,
     rect |-> rect, irt_xref |-> irt_xref]

RawAnnot(c, xref) ==
    [type |-> c.type, info |-> [content |-> c.content, creationDate |-> c.creationDate],
     xref |-> xref, irt_xref |-> c.irt_xref, rect |-> c.rect]

PageOf(xref) == (xref - 1) % NumPages

\* the annotations of page p, in the order of their xrefs
PageAnnots(p, n, cs) ==
    SelectSeq([i \in 1..n |-> RawAnnot(cs[i], i)], LAMBDA a: PageOf(a.xref) = p)

\* a layout <<even, odd>> gives the line boxes of the even and of the odd pages
MkDoc(n, cs, layout) ==
    [p \in 0..(NumPages - 1) |->
        [line_bbs |-> layout[(p % 2) + 1], annots |-> PageAnnots(p, n, cs)]]

InitRun ==
    /\ pc = "stabilize"
    /\ err = "none"
    /\ pageno = 0
    /\ idx = 1
    /\ stable_annots = [p \in DOMAIN doc |-> <<>>]
    /\ all_responses = <<>>
    /\ corrections = <<>>
    /\ TexIdle

InitDocs(Choices, Layouts) ==
    \E n \in 0..MaxAnnots :
      \E cs \in [1..n -> Choices] :
        \E layout \in Layouts :
          doc = MkDoc(n, cs, layout)

\* Classification: strikeouts, carets and highlights as roots, and as
\* responses to annotation 1 with an empty or a written comment, a caret
\* that meets the strikeout and one that does not, a note.
ClassifyChoices ==
    { Choice("StrikeOut", "fix typo", 1, StrikeRect,   0),
      Choice("Caret",     "insert",   1, CaretRect,    0),
      Choice("Highlight", "",         1, HighRect,     0),
      Choice("StrikeOut", "",         1, StrikeRect,   1),
      Choice("StrikeOut", "x",        1, StrikeRect,   1),
      Choice("Caret",     "",         1, CaretRect,    1),
      Choice("Caret",     "x",        1, CaretRect,    1),
      Choice("Caret",     "",         1, CaretFarRect, 1),
      Choice("Highlight", "",         1, HighRect,     1),
      Choice("Text",      "A",        1, NoteRect,     1) }

Init ==
    /\ InitDocs(ClassifyChoices, {<<(<<L1, L2>>), (<<L1, L2>>)>>})
    /\ InitRun

Spec == Init /\ [][Next]_vars

\* Messages: roots of several types, notes of two dates in reply to
\* annotation 1 or 2, a caret completing a Replace pair, a note as root.
MessageChoices ==
    { Choice("StrikeOut", "fix typo", 1, StrikeRect, 0),
      Choice("Highlight", "",         1, HighRect,   0),
      Choice("Caret",     "insert",   1, CaretRect,  0),
      Choice("Text",      "A",        1, NoteRect,   0),
      Choice("Caret",     "",         1, CaretRect,  1),
      Choice("Text",      "A",        1, NoteRect,   1),
      Choice("Text",      "B",        2, NoteRect,   1),
      Choice("Text",      "C",        1, NoteRect,   1),
      Choice("Text",      "A",        1, NoteRect,   2),
      Choice("Text",      "B",        2, NoteRect,   2) }

InitMsg ==
    /\ InitDocs(MessageChoices, {<<(<<L1, L2>>), (<<L1, L2>>)>>})
    /\ InitRun

SpecMsg == InitMsg /\ [][Next]_vars

\* Stabilization: pages with both lines in either order or with the second
\* line alone, carets and strikeouts on them, annotations on no line.
StabChoices ==
    { Choice("Caret",     "",         1, CaretRect,   0),
      Choice("Caret",     "",         1, CaretRect,   1),
      Choice("StrikeOut", "fix typo", 1, StrikeRect,  0),
      Choice("StrikeOut", "",         1, StrikeRect,  1),
      Choice("StrikeOut", "",         1, StrikeRect2, 1),
      Choice("Text",      "A",        1, NoteRect,    1),
      Choice("Highlight", "",         1, OffRect,     0) }

LineChoices == { <<L1, L2>>, <<L2, L1>>, <<L2>> }

InitStab ==
    /\ InitDocs(StabChoices, LineChoices \X LineChoices)
    /\ InitRun

SpecStab == InitStab /\ [][Next]_vars

\* Stabilization run again: getStableAnnots returns, and the caller, who
\* keeps the result, calls it once more on the same document.
RunAgain ==
    /\ pc = "responses"
    /\ pc' = "stabilize"
    /\ UNCHANGED <<doc, err, pageno, idx, stable_annots, all_responses, corrections>>
    /\ UNCHANGED texvars

NextTwice == getStableAnnots \/ RunAgain

SpecTwice == InitStab /\ [][NextTwice]_vars

\* Pairs: a strikeout or a caret as root, with or without a comment, and a
\* strikeout or a caret in response to annotation 1, with or without one.
PairChoices ==
    { Choice("StrikeOut", "",         1, StrikeRect, 0),
      Choice("StrikeOut", "fix typo", 1, StrikeRect, 0),
      Choice("Caret",     "",         1, CaretRect,  0),
      Choice("Caret",     "insert",   1, CaretRect,  0),
      Choice("StrikeOut", "",         1, StrikeRect, 1),
      Choice("Caret",     "",         1, CaretRect,  1),
      Choice("Caret",     "x",        1, CaretRect,  1) }

InitPair ==
    /\ InitDocs(PairChoices, {<<(<<L1, L2>>), (<<L1, L2>>)>>})
    /\ InitRun

SpecPair == InitPair /\ [][Next]_vars

----------------------------------------------------------------------------
(* The sources segment is run on: a preamble, then the document            *)
(* environment with up to MaxNodes nodes, each a piece of text, a formula, *)
(* a macro, a group, a comment or an environment; texts inside the         *)
(* environments that are not to be marked use words of their own.          *)

MaxNodes == 3
MaxIrregularNodes == 1

Sp == Tok(" ")

\* " alpha beta ": both words have a blank on either side
TwoWords == LatexCharsNode(<<Sp, Tok("alpha"), Sp, Tok("beta"), Sp>>)

\* "gamma, delta 1 ": gamma starts the text and is followed by a comma
WordsAndMarks ==
    LatexCharsNode(<<Tok("gamma"), Tok(","), Sp, Tok("delta"), Sp, Tok("1"), Sp>>)

InlineMath == LatexMathNode("inline", <<Tok("$x$")>>)

DisplayMath == LatexMathNode("display", <<Tok("\\[y\\]")>>)

SectionMacro == LatexMacroNode("\\section")

BareGroup == LatexGroupNode(<<LatexCharsNode(<<Sp, Tok("zeta"), Sp>>)>>)

Comment == LatexCommentNode(<<Tok("%c")>>)

\* a figure with text, a formula and a proof in it
Figure ==
    LatexEnvironmentNode("figure",
        << LatexCharsNode(<<Sp, Tok("theta"), Sp>>),
           LatexMathNode("inline", <<Tok("$v$")>>),
           LatexEnvironmentNode("proof", <<LatexCharsNode(<<Sp, Tok("iota"), Sp>>)>>) >>)

\* a proof with text, a formula and a figure in it
Proof ==
    LatexEnvironmentNode("proof",
        << LatexCharsNode(<<Sp, Tok("eta"), Sp>>),
           LatexMathNode("inline", <<Tok("$u$")>>),
           LatexEnvironmentNode("figure", <<LatexCharsNode(<<Sp, Tok("kappa"), Sp>>)>>) >>)

\* an enunciation: marked when a \newtheorem declares it
Theorem == LatexEnvironmentNode("theorem", <<LatexCharsNode(<<Sp, Tok("lam"), Sp>>)>>)

\* an itemize that is never closed
Unclosed == UnclosedEnvironmentNode("itemize", <<LatexCharsNode(<<Sp, Tok("alpha"), Sp>>)>>)

BodyChoices ==
    { TwoWords, WordsAndMarks, InlineMath, DisplayMath, SectionMacro, BareGroup,
      Comment, Figure, Proof, Theorem, Unclosed }

Preamble == <<LatexMacroNode("\\documentclass"), LatexCharsNode(<<Tok("\n")>>)>>

\* the top-level nodes: the preamble and the document; no document at all;
\* two documents; an environment before the document
TopLevels(body) ==
    { Preamble \o <<LatexEnvironmentNode("document", body)>>,
      Preamble,
      Preamble \o <<LatexEnvironmentNode("document", body),
                    LatexEnvironmentNode("document", <<>>)>>,
      Preamble \o <<LatexEnvironmentNode("filecontents", <<>>),
                    LatexEnvironmentNode("document", body)>> }

\* the \newtheorem declarations: none, one for "theorem", one without arguments
NewtheoremChoices == { <<>>, <<(<<"theorem", "Theorem">>)>>, <<(<<>>)>> }

\* the source the parser gave nodelist for: the text of the nodes, or, when
\* the parser lost something, that text and more
Sources(nodelist) ==
    LET text == join([i \in 1..Len(nodelist) |-> latex_verbatim(nodelist[i])])
    IN  { text, text \o <<Tok("\\verb")>> }

InitSegRun ==
    /\ seg_pc = "parse"
    /\ pass_no = 0
    /\ calls = <<>>
    /\ marked = None
    /\ ret = None

\* a source as the parser gives it back, with or without a \newtheorem
RegularSource(tex_) ==
    \E n \in 0..MaxNodes :
      \E body \in [1..n -> BodyChoices] :
        \E newtheorems \in {<<>>, <<(<<"theorem", "Theorem">>)>>} :
          LET nodelist == Preamble \o <<LatexEnvironmentNode("document", body)>>
          IN  tex_ = [tex_str |-> join([i \in 1..Len(nodelist) |-> latex_verbatim(nodelist[i])]),
                      nodelist |-> nodelist, newtheorems |-> newtheorems]

\* every top level, parse and \newtheorem, around a short document
IrregularSource(tex_) ==
    \E n \in 0..MaxIrregularNodes :
      \E body \in [1..n -> BodyChoices] :
        \E nodelist \in TopLevels(body) :
          \E tex_str \in Sources(nodelist) :
            \E newtheorems \in NewtheoremChoices :
              tex_ = [tex_str |-> tex_str, nodelist |-> nodelist,
                      newtheorems |-> newtheorems]

InitSeg ==
    /\ RegularSource(tex) \/ IrregularSource(tex)
    /\ InitSegRun
    /\ AnnotIdle
    /\ BoxIdle

SpecSeg == InitSeg /\ [][NextSegment]_vars

----------------------------------------------------------------------------
(* The positions files getWordBoxes is run on: up to MaxUnits blocks of    *)
(* lines, the i-th block about the i-th key; a block is what \markbox      *)
(* writes for a unit, in whole or in part, or a line that is no record.    *)

MaxUnits == 3

KeyAt(i) == <<"0", "m1", "2", "3", "m4">>[i]

Pt(n) == n * SCALED_POINTS_PER_TEX_POINT

\* a box 2pt wide, 1pt high, from x = 10pt to x = 12pt at y = 20pt
Pwhd(key, page)        == Line(key, "pwhd", page, 2 * TEX_POINT, 1 * TEX_POINT, 0)
Spxy(key, page)        == Line(key, "spxy", page, Pt(10), Pt(20), 0)
Epxy(key, page)        == Line(key, "epxy", page, Pt(12), Pt(20), 0)

NoRecord == Line("0", "xxxx", 1, 0, 0, 0)

BlockChoices(key) ==
    { <<Pwhd(key, 1), Spxy(key, 1), Epxy(key, 1)>>,
      <<Epxy(key, 2), Pwhd(key, 2), Spxy(key, 2)>>,
      <<Pwhd(key, 1), Spxy(key, 1), Epxy(key, 2)>>,
      <<Pwhd(key, 1), Spxy(key, 1)>>,
      <<Pwhd(key, 1), Spxy(key, 1), Spxy(key, 1), Epxy(key, 1)>>,
      \* 3.00375pt wide and 1pt deep: 10 + 3.00375 - 12 TeX points are 1 PDF point
      <<Line(key, "pwhd", 1, 3 * TEX_POINT + (3 * TEX_POINT) \div 800, TEX_POINT, TEX_POINT),
        Spxy(key, 1), Epxy(key, 1)>>,
      \* 0.99625pt wide: 1 PDF point short
      <<Line(key, "pwhd", 1, TEX_POINT - (3 * TEX_POINT) \div 800, TEX_POINT, 0),
        Spxy(key, 1), Epxy(key, 1)>>,
      \* 3.005pt wide: more than 1 PDF point over
      <<Line(key, "pwhd", 1, 3 * TEX_POINT + (4 * TEX_POINT) \div 800, TEX_POINT, 0),
        Spxy(key, 1), Epxy(key, 1)>>,
      \* the end one scaled point lower than the start
      <<Pwhd(key, 1), Spxy(key, 1), Line(key, "epxy", 1, Pt(12), Pt(20) + 1, 0)>>,
      <<Pwhd("0", 1)>>,
      <<NoRecord>>,
      <<BlankLine>> }

InitBoxRun ==
    /\ wb_pc = "read"
    /\ wb_err = "none"
    /\ line_no = 1
    /\ word_boxes = <<>>
    /\ box_order = <<>>
    /\ box_idx = 1
    /\ page_rectangles = <<>>

\* the files of n blocks, the i-th block one of the unit KeyAt(i)
RECURSIVE LogFiles(_)
LogFiles(n) ==
    IF n = 0 THEN {<<>>}
    ELSE {f \o block : f \in LogFiles(n - 1), block \in BlockChoices(KeyAt(n))}

InitBox ==
    /\ \E n \in 0..MaxUnits : log_file \in LogFiles(n)
    /\ InitBoxRun
    /\ AnnotIdle
    /\ SegIdle

SpecBox == InitBox /\ [][NextWordBoxes]_vars

----------------------------------------------------------------------------
(* Vocabulary of the properties, stated on the raw document.              *)

Places == UNION {{<<p, i>> : i \in 1..Len(doc[p].annots)} : p \in DOMAIN doc}

Raw(pl) == doc[pl[1]].annots[pl[2]]

\* the order in which the loops visit the places
Precedes(a, b) == a[1] < b[1] \/ (a[1] = b[1] /\ a[2] < b[2])

Roots == {pl \in Places : Raw(pl).irt_xref = 0}

ResponsesTo(pl) == {q \in Places : Raw(q).irt_xref = Raw(pl).xref}

ResponseTypes(pl) == {Raw(q).type : q \in ResponsesTo(pl)}

\* getStableAnnots has returned
Stabilized == pc \in {"correct", "done"} \/ (pc = "error" /\ err # "IndexError")

\* the loop of getCorrections has got past place pl
Processed(pl) == Stabilized /\ Precedes(pl, <<pageno, idx>>)

\* the root the loop of getCorrections is at
Current == NextPlace(pageno, idx)

\* the rectangle the Stabilizer gave the annotation
StableRect(pl) ==
    IF Raw(pl).type = "Caret"
    THEN [Raw(pl).rect EXCEPT
            !.y1 = highest_baseline_bb(Raw(pl).rect, doc[pl[1]].line_bbs)[4]]
    ELSE Raw(pl).rect

\* the Edit of a root is the k-th Edit, the root being the k-th root visited
RootIndex(pl) == Cardinality({q \in Roots : Precedes(q, pl)}) + 1

HasEdit(pl) == pl \in Roots /\ Processed(pl) /\ RootIndex(pl) <= Len(corrections)

EditOf(pl) == corrections[RootIndex(pl)]

----------------------------------------------------------------------------
(* C1: when getCorrections completes, there is exactly one Edit per        *)
(* annotation with irt_xref = 0 and none for a response: the Edits are, in *)
(* order, those of the roots (same page, the root's comment), so their     *)
(* number is the number of roots.  The same count holds after every        *)
(* iteration for the roots visited so far.                                 *)
C1_CountInvariant ==
    Stabilized =>
      /\ Len(corrections) = Cardinality({pl \in Roots : Processed(pl)})
      /\ \A pl \in Roots : Processed(pl) =>
            /\ EditOf(pl).pageno = pl[1]
            /\ EditOf(pl).message.comment = Raw(pl).info.content
      /\ pc = "done" => Len(corrections) = Cardinality(Roots)

\* a completed run with two roots, one of them a Replace pair, and more
\* annotations than Edits
C1_Witness ==
    /\ pc = "done"
    /\ Len(corrections) >= 2
    /\ Cardinality(Places) > Len(corrections)
    /\ \E k \in 1..Len(corrections) : corrections[k].type = "Replace"

----------------------------------------------------------------------------
(* C2: a root that isReplaceAnnot decides on gets an Edit of type Replace  *)
(* if and only if it is a StrikeOut or a Caret, exactly one of its         *)
(* responses has the other of the two types, that response's rectangle     *)
(* intersects the root's and that response's content is empty.             *)
OtherType(t) == IF t = "Caret" THEN "StrikeOut" ELSE "Caret"

Partners(pl) == {q \in ResponsesTo(pl) : Raw(q).type = OtherType(Raw(pl).type)}

ReplaceConditions(pl) ==
    /\ Raw(pl).type \in {"StrikeOut", "Caret"}
    /\ ResponsesTo(pl) # {}
    /\ Cardinality(Partners(pl)) = 1
    /\ \A q \in Partners(pl) :
          /\ RectIntersects(StableRect(pl), StableRect(q))
          /\ Raw(q).info.content = ""

C2_ReplaceDecision ==
    \A pl \in Roots : Processed(pl) =>
        /\ HasEdit(pl)
        /\ (EditOf(pl).type = "Replace") <=> ReplaceConditions(pl)
        /\ EditOf(pl).type # "Replace" => EditOf(pl).type = Raw(pl).type

\* the scenario of the spec: a StrikeOut "fix typo" with one empty Caret on it
C2_Witness ==
    \E pl \in Roots :
        /\ HasEdit(pl)
        /\ Raw(pl).type = "StrikeOut"
        /\ Cardinality(ResponsesTo(pl)) = 1
        /\ EditOf(pl).type = "Replace"
        /\ EditOf(pl).message.comment = "fix typo"

----------------------------------------------------------------------------
(* C3: message.responses of a root's Edit lists its Text responses in      *)
(* ascending order of creationDate, whatever their order on the pages:     *)
(* there is an enumeration of the root's Text responses that gives the     *)
(* list and whose dates never decrease.                                    *)
TextResponsesTo(pl) == {q \in ResponsesTo(pl) : Raw(q).type = "Text"}

IsEnumeration(f, S) ==
    /\ \A q \in S : \E i \in DOMAIN f : f[i] = q
    /\ \A i, j \in DOMAIN f : f[i] = f[j] => i = j

C3_ResponseOrdering ==
    \A pl \in Roots : Processed(pl) =>
        /\ HasEdit(pl)
        /\ LET resps == EditOf(pl).message.responses
               T == TextResponsesTo(pl)
           IN  /\ Len(resps) = Cardinality(T)
               /\ \E f \in [1..Len(resps) -> T] :
                     /\ IsEnumeration(f, T)
                     /\ \A i \in 1..Len(resps) : resps[i] = Raw(f[i]).info.content
                     /\ \A i \in 1..(Len(resps) - 1) :
                           Raw(f[i]).info.creationDate <= Raw(f[i + 1]).info.creationDate

\* an Edit <<"A", "B">> whose later response "B" comes first on the pages
C3_Witness ==
    \E pl \in Roots :
        /\ HasEdit(pl)
        /\ EditOf(pl).message.responses = <<"A", "B">>
        /\ \E q1, q2 \in TextResponsesTo(pl) :
              /\ Precedes(q1, q2)
              /\ Raw(q1).info.creationDate > Raw(q2).info.creationDate

----------------------------------------------------------------------------
(* C7: the Edit of a root, Replace or not, has the root's content as       *)
(* message.comment, and message.responses holds the contents of exactly    *)
(* the Text annotations whose irt_xref is the root's xref, each once.      *)
Count(s, c) == Cardinality({i \in 1..Len(s) : s[i] = c})

C7_MessageConstruction ==
    \A pl \in Roots : Processed(pl) =>
        /\ HasEdit(pl)
        /\ EditOf(pl).message.comment = Raw(pl).info.content
        /\ Len(EditOf(pl).message.responses) = Cardinality(TextResponsesTo(pl))
        /\ \A q \in TextResponsesTo(pl) :
              Count(EditOf(pl).message.responses, Raw(q).info.content) =
              Cardinality({t \in TextResponsesTo(pl) :
                              Raw(t).info.content = Raw(q).info.content})

\* a Replace Edit with a note, beside a note that answers another annotation
C7_Witness ==
    \E pl \in Roots :
        /\ HasEdit(pl)
        /\ EditOf(pl).type = "Replace"
        /\ EditOf(pl).message.responses = <<"B">>
        /\ \E q \in Places \ ResponsesTo(pl) :
              Raw(q).type = "Text" /\ Raw(q).irt_xref # 0

----------------------------------------------------------------------------
(* C8: a root classified as Replace gives an Edit of type Replace whose    *)
(* selection is cut at the rectangle of the paired StrikeOut response when *)
(* the root was a Caret, and at the root's own rectangle when it was a     *)
(* StrikeOut; the annotation keeps that rectangle.                         *)
SelectionRect(pl) ==
    IF Raw(pl).type = "Caret"
    THEN StableRect(CHOOSE q \in Partners(pl) : TRUE)
    ELSE StableRect(pl)

C8_ReplacePromotion ==
    \A pl \in Roots : (Processed(pl) /\ Deref(pl).type = "Replace") =>
        /\ HasEdit(pl)
        /\ Raw(pl).type \in {"StrikeOut", "Caret"}
        /\ Partners(pl) # {}
        /\ EditOf(pl).type = "Replace"
        /\ Deref(pl).rect = SelectionRect(pl)
        /\ Len(EditOf(pl).selection) = 5
        /\ EditOf(pl).selection[1].rect.x1 = SelectionRect(pl).x0 - EXTRACT_TEXT_BUFFER_WIDTH
        /\ EditOf(pl).selection[3].rect.x0 = SelectionRect(pl).x0 + 1
        /\ EditOf(pl).selection[3].rect.x1 = SelectionRect(pl).x1 - 1
        /\ EditOf(pl).selection[5].rect.x0 = SelectionRect(pl).x1 + EXTRACT_TEXT_BUFFER_WIDTH

\* a Caret root promoted to Replace: its selection is cut at the strikeout
C8_Witness ==
    \E pl \in Roots :
        /\ HasEdit(pl)
        /\ Raw(pl).type = "Caret"
        /\ EditOf(pl).type = "Replace"
        /\ Deref(pl).rect = StrikeRect
        /\ StableRect(pl) # StrikeRect

----------------------------------------------------------------------------
(* C4: in every state, whatever getCorrections has done since, every       *)
(* StableAnnotation of type Caret has rect.y1 equal to the y1 of its       *)
(* intersecting_line_bb, and that box is a line box of its page that       *)
(* intersects the raw caret rectangle and has the smallest y1 of those.    *)
StablePlaces ==
    {pl \in Places : pl[2] <= Len(stable_annots[pl[1]])}

C4_CaretRectInvariant ==
    \A pl \in StablePlaces : Deref(pl).type = "Caret" =>
        LET bb == Deref(pl).intersecting_line_bb
            isect == {l \in {doc[pl[1]].line_bbs[k] : k \in 1..Len(doc[pl[1]].line_bbs)} :
                         RectIntersects(Raw(pl).rect, RectOfBB(l))}
        IN  /\ bb \in isect
            /\ \A l \in isect : bb[4] <= l[4]
            /\ Deref(pl).rect.y1 = bb[4]

\* after the classification: a Caret root was promoted to Replace, and a
\* Caret that crosses both lines of a page listing the lower line first
\* has been raised to the upper one
C4_Witness ==
    /\ pc = "done"
    /\ \E pl \in Roots : Raw(pl).type = "Caret" /\ Deref(pl).type = "Replace"
    /\ \E pl \in StablePlaces :
          /\ Deref(pl).type = "Caret"
          /\ doc[pl[1]].line_bbs = <<L2, L1>>
          /\ Deref(pl).rect.y1 = L1[4]
          /\ Raw(pl).rect.y1 # L1[4]

----------------------------------------------------------------------------
(* C5 as claimed: every root with a response of its own type ends the run *)
(* with a fatal error, so no iteration of getCorrections gets past it.     *)
HasSameTypeResponse(pl) == Raw(pl).type \in ResponseTypes(pl)

----------------------------------------------------------------------------
----------------------------------------------------------------------------
(* C9: what getStableAnnots returns holds, for every page, one Annot per   *)
(* raw annotation, in the same order, with the page number and the raw     *)
(* type, info, xref and irt_xref; the rectangle is the raw one, but for y1 *)
(* of a Caret.                                                             *)
C9_StabilizerPreservation ==
    pc = "responses" =>
      \A p \in DOMAIN doc :
             /\ Len(stable_annots[p]) = Len(doc[p].annots)
             /\ \A i \in 1..Len(doc[p].annots) :
                  LET raw == doc[p].annots[i]
                      st  == stable_annots[p][i]
                  IN  /\ st.pageno = p
                      /\ st.type = raw.type
                      /\ st.info = raw.info
                      /\ st.xref = raw.xref
                      /\ st.irt_xref = raw.irt_xref
                      /\ st.rect.x0 = raw.rect.x0
                      /\ st.rect.y0 = raw.rect.y0
                      /\ st.rect.x1 = raw.rect.x1
                      /\ raw.type # "Caret" => st.rect = raw.rect

\* getStableAnnots has returned: a page holds a raised Caret after another
\* annotation, every page holds an annotation
C9_Witness ==
    /\ pc = "responses"
    /\ \A p \in DOMAIN doc : stable_annots[p] # <<>>
    /\ \E p \in DOMAIN doc :
          /\ Len(stable_annots[p]) >= 2
          /\ stable_annots[p][1].type # "Caret"
          /\ stable_annots[p][2].type = "Caret"
          /\ stable_annots[p][2].rect.y1 # doc[p].annots[2].rect.y1

----------------------------------------------------------------------------
(* C10 as claimed: a raw annotation of any type that intersects no line    *)
(* box of its page makes getStableAnnots fail: it never returns for a      *)
(* document holding one.                                                   *)
OnNoLine(raw, p) == intersecting_line_bbs(raw.rect, doc[p].line_bbs) = <<>>

Returned == pc = "responses" \/ Stabilized

C10_AnyTypeOnNoLineFatal ==
    Returned =>
      \A p \in DOMAIN doc : \A i \in 1..Len(doc[p].annots) : ~OnNoLine(doc[p].annots[i], p)

(* C10, amended: a raw annotation of a type other than Text that           *)
(* intersects no line box of its page makes getStableAnnots fail with the  *)
(* IndexError of the empty candidate list: getStableAnnots never returns,  *)
(* nothing is emitted for the annotation and it is not skipped.  A Text    *)
(* annotation is emitted, without a line box, wherever it lies.            *)
C10_NonTextOnNoLineFatal ==
    /\ \A p \in DOMAIN doc : \A i \in 1..Len(doc[p].annots) :
          (doc[p].annots[i].type # "Text" /\ OnNoLine(doc[p].annots[i], p)) =>
              /\ ~Returned
              /\ \A q \in DOMAIN doc : stable_annots[q] = <<>>
              /\ pc = "stabilize" \/ (pc = "error" /\ err = "IndexError")
    /\ Returned =>
          \A p \in DOMAIN doc :
              /\ Len(stable_annots[p]) = Len(doc[p].annots)
              /\ \A i \in 1..Len(doc[p].annots) :
                    doc[p].annots[i].type = "Text" =>
                        stable_annots[p][i].intersecting_line_bb = None

\* getStableAnnots failed at a Highlight on no line, on the page after one
\* that holds a note on no line
C10_Witness ==
    /\ pc = "error"
    /\ err = "IndexError"
    /\ \E i \in 1..Len(doc[1].annots) :
          doc[1].annots[i].type = "Highlight" /\ OnNoLine(doc[1].annots[i], 1)
    /\ \E i \in 1..Len(doc[0].annots) :
          doc[0].annots[i].type = "Text" /\ OnNoLine(doc[0].annots[i], 0)
    /\ \A i \in 1..Len(doc[0].annots) :
          doc[0].annots[i].type = "Text" \/ ~OnNoLine(doc[0].annots[i], 0)

----------------------------------------------------------------------------
(* C11 as claimed: the Edit of a root has the selection of its effective   *)
(* type: for Caret, the line left of the caret's midpoint minus CARET_BUFF, *)
(* the empty Caret tag, the line right of the midpoint plus CARET_BUFF;    *)
(* for Replace, StrikeOut, Highlight and Underline, the line left of       *)
(* rect.x0 - buffer, the tag around [rect.x0 + buffer/2, rect.x1 -         *)
(* buffer/2], the line right of rect.x1 + buffer; for any other type, Text *)
(* included, no selection.  And the iteration of a root of another type    *)
(* does produce its Edit: it does not end the run with an error.           *)
OwnLine(pl) == highest_baseline_bb(Raw(pl).rect, doc[pl[1]].line_bbs)

EffectiveRect(pl) ==
    IF EditOf(pl).type = "Replace" THEN SelectionRect(pl) ELSE StableRect(pl)

ExpectedSelection(pl) ==
    LET T  == EditOf(pl).type
        r  == EffectiveRect(pl)
        bb == OwnLine(pl)
        mid == r.x0 + ((r.x1 - r.x0) \div 2)
    IN  IF T = "Caret"
        THEN << get_textbox(Rect(bb[1], bb[2], mid - CARET_BUFF, bb[4])),
                OpenTag("Caret"), CloseTag("Caret"),
                get_textbox(Rect(mid + CARET_BUFF, bb[2], bb[3], bb[4])) >>
        ELSE << get_textbox(Rect(bb[1], bb[2], r.x0 - EXTRACT_TEXT_BUFFER_WIDTH, bb[4])),
                OpenTag(T),
                get_textbox(Rect(r.x0 + 1, bb[2], r.x1 - 1, bb[4])),
                CloseTag(T),
                get_textbox(Rect(r.x1 + EXTRACT_TEXT_BUFFER_WIDTH, bb[2], bb[3], bb[4])) >>

SelectionTypes == {"Caret", "Replace", "StrikeOut", "Highlight", "Underline"}

C11_SelectionByEffectiveType ==
    /\ \A pl \in Roots : Processed(pl) =>
          /\ HasEdit(pl)
          /\ IF EditOf(pl).type \in SelectionTypes
             THEN EditOf(pl).selection = ExpectedSelection(pl)
             ELSE EditOf(pl).selection = None
    /\ \A pl \in Roots :
          (Stabilized /\ Current = pl /\ Raw(pl).type \notin SelectionTypes) =>
              pc # "error"

\* the iteration of a Text root: getSelection unpacks the line box the
\* Stabilizer did not give it, the run ends with a TypeError and no Edit
C11_Witness ==
    /\ pc = "error"
    /\ err = "TypeError"
    /\ Current \in Roots
    /\ Raw(Current).type = "Text"
    /\ Len(corrections) = Cardinality({q \in Roots : Precedes(q, Current)})

----------------------------------------------------------------------------
(* C12: the mapping getAllResponses returns has, under each key k, exactly *)
(* the annotations whose irt_xref is k, each once; every annotation with a *)
(* non-zero irt_xref is under the key of its irt_xref and under no other,  *)
(* no annotation with irt_xref = 0 is under any key and 0 is no key; and   *)
(* getResponses of a root without responses is the empty grouping.         *)
Listed(k) == {all_responses[k][i] : i \in 1..Len(all_responses[k])}

C12_ResponseGraph ==
    Stabilized =>
      /\ 0 \notin DOMAIN all_responses
      /\ \A k \in DOMAIN all_responses :
            /\ Listed(k) = {pl \in Places : Raw(pl).irt_xref = k}
            /\ Len(all_responses[k]) = Cardinality(Listed(k))
      /\ \A pl \in Places :
            /\ Raw(pl).irt_xref # 0 => Raw(pl).irt_xref \in DOMAIN all_responses
            /\ \A k \in DOMAIN all_responses :
                  pl \in Listed(k) => (k = Raw(pl).irt_xref /\ k # 0)
      /\ \A pl \in Roots :
            ResponsesTo(pl) = {} => DOMAIN getResponses(Deref(pl), all_responses) = {}

\* two keys, one of them the xref of a response, responses on the page of
\* their target and on the other page, and a root without responses
C12_Witness ==
    /\ Stabilized
    /\ DOMAIN all_responses = {1, 2}
    /\ Raw(<<PageOf(2), 1>>).irt_xref = 1
    /\ \E pl \in Roots : ResponsesTo(pl) = {} /\ Raw(pl).xref \notin DOMAIN all_responses
    /\ \E k \in DOMAIN all_responses : \E pl, q \in Listed(k) : pl[1] # q[1]

----------------------------------------------------------------------------
(* C13: a call of getStableAnnots on a document it has already returned    *)
(* for returns again, and with the same sequence of StableAnnotations on   *)
(* every page as the first call; no call changes the raw annotations or    *)
(* the line boxes of the document.                                         *)
NothingStable == [p \in DOMAIN doc |-> <<>>]

\* the state a second call starts in: the result of the first is kept
SecondCall == pc = "stabilize" /\ stable_annots # NothingStable

----------------------------------------------------------------------------
(* C14: when the verbatim text of the top-level nodes is not the source,   *)
(* segment exits at the check: markNode is never called, no pdflatex and   *)
(* no diff-pdf is ever started and nothing is returned.  So markNode is    *)
(* called only in a run in which the round trip check passed.              *)
RoundTrips ==
    join([i \in 1..Len(tex.nodelist) |-> tex.nodelist[i].verbatim]) = tex.tex_str

C14_RoundTripPrecondition ==
    (seg_pc # "idle" /\ ~RoundTrips) =>
        /\ seg_pc \in {"parse", "exit"}
        /\ calls = <<>>
        /\ marked = None
        /\ ret = None

\* segment has exited on a source with one document environment, text to
\* mark in it and sound \newtheorems, that the parser did not give back whole
C14_Witness ==
    /\ seg_pc = "exit"
    /\ ~RoundTrips
    /\ num_document_envs(tex.nodelist) = 1
    /\ ~getEnunciationsExits(tex.newtheorems)
    /\ \E i \in 1..Len(tex.nodelist) :
          /\ tex.nodelist[i].envname = "document"
          /\ tex.nodelist[i].nodelist = <<TwoWords>>

----------------------------------------------------------------------------
(* C15: the processes segment runs are, in this order, the RUNS passes of  *)
(* pdflatex on the original source, the RUNS passes on the marked source   *)
(* and diff-pdf, after the marking; a process is started only when all     *)
(* before it returned 0, so a pass is never run twice and the first        *)
(* process that does not return 0 is the last one: segment exits there and *)
(* returns nothing.  It returns only when all of them have returned 0.     *)
ExpectedCalls ==
    <<Call("markNode", "", 0, 0)>>
      \o [i \in 1..RUNS |-> Call("pdflatex", "orig", i, 0)]
      \o [i \in 1..RUNS |-> Call("pdflatex", "marked", i, 0)]
      \o <<Call("diff-pdf", "orig marked", 1, 0)>>

C15_RenderDiffSequencing ==
    /\ Len(calls) <= Len(ExpectedCalls)
    /\ \A k \in 1..Len(calls) :
          /\ calls[k].call = ExpectedCalls[k].call
          /\ calls[k].file = ExpectedCalls[k].file
          /\ calls[k].pass = ExpectedCalls[k].pass
          /\ k < Len(calls) => calls[k].returncode = 0
    /\ (calls # <<>> /\ calls[Len(calls)].returncode # 0) =>
          (seg_pc = "exit" /\ ret = None)
    /\ (seg_pc = "returned") <=> (ret # None)
    /\ ret # None => calls = ExpectedCalls

\* segment has returned a source with marks in it
C15_Witness ==
    /\ seg_pc = "returned"
    /\ Len(calls) = 2 * RUNS + 2
    /\ ret[2] >= 2

----------------------------------------------------------------------------
(* Vocabulary of the properties of markNode, stated on positions of the    *)
(* source: the output is read back token by token, a \markbox standing for *)
(* the tokens of its argument.                                             *)

\* the node segment hands to markNode, and what markNode returned for it
documentNode == tex.nodelist[FirstEnvironment(tex.nodelist, 1)]
marked_document == marked[1]
num_marks == marked[2]

IsMarkbox(t) == t.s = "\\markbox"

Markboxes == {i \in 1..Len(marked_document) : IsMarkbox(marked_document[i])}

\* the output with every \markbox{id}{X} replaced by X
RECURSIVE Payloads(_)
Payloads(out) ==
    IF out = <<>> THEN <<>>
    ELSE (IF IsMarkbox(Head(out)) THEN Head(out).arg ELSE <<Head(out)>>)
            \o Payloads(Tail(out))

\* the position in the source of the first token of the i-th output token
SourcePos(i) == Len(Payloads(SubSeq(marked_document, 1, i - 1))) + 1

\* the positions of the source, node at position start, that lie in an
\* environment that is not allowed, a macro, a display formula or a group
RECURSIVE OpaquePositions(_, _, _), OpaqueInList(_, _, _)
OpaquePositions(node, start, allowed) ==
    IF node.kind = "env" /\ node.envname \in allowed
    THEN OpaqueInList(node.nodelist, start + 1, allowed)
    ELSE IF \/ node.kind \in {"env", "macro", "group"}
            \/ (node.kind = "math" /\ node.displaytype # "inline")
    THEN start..(start + Len(node.verbatim) - 1)
    ELSE {}

OpaqueInList(nodelist, start, allowed) ==
    IF nodelist = <<>> THEN {}
    ELSE OpaquePositions(Head(nodelist), start, allowed)
            \cup OpaqueInList(Tail(nodelist), start + Len(Head(nodelist).verbatim), allowed)

AllowedHere == ALLOWED_MARK_ENVIRONMENTS \cup {tex.newtheorems[i][1] : i \in 1..Len(tex.newtheorems)}

----------------------------------------------------------------------------
(* C16: in what markNode returns, the source is all there in its order, no *)
(* \markbox holds a \begin or an \end, and no \markbox lies at a position  *)
(* of the source inside an environment that is not allow-listed (however   *)
(* deep below it), a macro, a display formula or a bare group: those nodes *)
(* stand in the output as in the source, and an allow-listed environment   *)
(* keeps its \begin and \end around the marked forms of its children.      *)
C16_OpaqueRegionsUnmarked ==
    marked # None =>
        /\ Payloads(marked_document) = documentNode.verbatim
        /\ \A i \in Markboxes :
              /\ \A k \in 1..Len(marked_document[i].arg) :
                    /\ marked_document[i].arg[k].s \notin {"\\begin", "\\end"}
                    /\ (SourcePos(i) + k - 1) \notin
                           OpaquePositions(documentNode, 1, AllowedHere)

\* a marked document with a figure in a proof, a formula in a figure, a
\* group and a display formula, and marks in the proof
C16_Witness ==
    /\ marked # None
    /\ documentNode.envname = "document"
    /\ \E i, j, k \in 1..Len(documentNode.nodelist) :
          /\ documentNode.nodelist[i] = Proof
          /\ documentNode.nodelist[j] = Figure
          /\ documentNode.nodelist[k] \in {BareGroup, DisplayMath}
    /\ Markboxes # {}

----------------------------------------------------------------------------
(* C17: the \markbox directives of the output, words and inline formulas   *)
(* alike, carry the numbers 0, 1, ..., n-1 from the first to the last, and *)
(* the count markNode returns is n.                                        *)
MarkboxesInOrder == SelectSeq(marked_document, IsMarkbox)

C17_UniqueNumbering ==
    marked # None =>
        /\ \A i \in 1..Len(MarkboxesInOrder) : MarkboxesInOrder[i].n = i - 1
        /\ num_marks = Len(MarkboxesInOrder)

\* four marks or more: a formula numbered between two words
C17_Witness ==
    /\ marked # None
    /\ num_marks >= 4
    /\ \E i \in 2..(Len(MarkboxesInOrder) - 1) :
          /\ MarkboxesInOrder[i].m
          /\ ~MarkboxesInOrder[i - 1].m
          /\ ~MarkboxesInOrder[i + 1].m

----------------------------------------------------------------------------
(* C18 as claimed: every line of the file is held against the grammar,     *)
(* wherever it stands, and one that does not match ends getWordBoxes in a  *)
(* fatal error: the loop is left, and a map returned, only when every line *)
(* of the file has been read and is a record.                              *)
C18_EveryLineChecked ==
    wb_pc \in {"check", "rectangles", "returned"} =>
        /\ line_no > Len(log_file)
        /\ \A n \in 1..Len(log_file) : box_info(log_file[n])

\* getWordBoxes has returned the rectangle of the first unit of a file in
\* which a blank line comes before a line that is no record
C18_Witness ==
    /\ wb_pc = "returned"
    /\ page_rectangles # <<>>
    /\ line_no <= Len(log_file)
    /\ log_file[line_no] = BlankLine
    /\ \E n \in (line_no + 1)..Len(log_file) : log_file[n] = NoRecord

----------------------------------------------------------------------------
(* C19 as claimed: when the lines are read and a key has fewer or more     *)
(* than three records, getWordBoxes ends at the count check with its fatal *)
(* error: the loop over the units is never entered and no rectangle is     *)
(* computed.                                                               *)
Miscounted ==
    {key \in DOMAIN word_boxes : Cardinality(DOMAIN word_boxes[key]) # 3}

C19_CountMismatchFatal ==
    (wb_pc \notin {"idle", "read"} /\ wb_err \notin {"no match", "label already in"}
       /\ Miscounted # {}) =>
        /\ wb_pc = "check" \/ (wb_pc = "exit" /\ wb_err = "differed from spec")
        /\ page_rectangles = <<>>

\* the count check let a unit without its epxy line through: the loop
\* over the units computed the rectangle of the unit before it and then
\* raised KeyError at the lookup of info['epxy']
C19_Witness ==
    /\ wb_pc = "raised"
    /\ wb_err = "KeyError"
    /\ box_idx = 2
    /\ DOMAIN word_boxes[box_order[box_idx]] = {"pwhd", "spxy"}
    /\ page_rectangles # <<>>

----------------------------------------------------------------------------
(* C20: the loop ends in the fatal error "label already in" exactly at a   *)
(* line whose key and label a line read before it has; so no two of the    *)
(* lines stored have the same key and label, every key has one stored      *)
(* record per line read for it, of the three labels, three at most.        *)
LinesRead == 1..(line_no - 1)

Repeats(n) ==
    /\ n <= Len(log_file)
    /\ box_info(log_file[n])
    /\ \E i \in 1..(n - 1) :
          log_file[i].key = log_file[n].key /\ log_file[i].label = log_file[n].label

C20_DuplicateKindFatal ==
    wb_pc # "idle" =>
        /\ \A i, j \in LinesRead :
              (log_file[i].key = log_file[j].key /\ log_file[i].label = log_file[j].label)
                  => i = j
        /\ \A key \in DOMAIN word_boxes :
              /\ DOMAIN word_boxes[key] \subseteq Labels
              /\ Cardinality(DOMAIN word_boxes[key]) <= 3
              /\ Cardinality(DOMAIN word_boxes[key]) =
                    Cardinality({i \in LinesRead : log_file[i].key = key})
        /\ (wb_pc # "read" /\ Repeats(line_no)) =>
              (wb_pc = "exit" /\ wb_err = "label already in")
        /\ wb_err = "label already in" => Repeats(line_no)

\* the loop has ended at the second pwhd line of key "0", with the three
\* records of another key stored
C20_Witness ==
    /\ wb_pc = "exit"
    /\ wb_err = "label already in"
    /\ log_file[line_no] = Pwhd("0", 1)
    /\ \E key \in DOMAIN word_boxes :
          key # "0" /\ DOMAIN word_boxes[key] = Labels

----------------------------------------------------------------------------
(* Vocabulary of the properties of the rectangles, stated on the lines of  *)
(* the file: positions in scaled points, the width in 1/TEX_POINT of a     *)
(* point.                                                                  *)

\* the unit is one the loop over the units has gone past
Decided(key) == \E i \in 1..(box_idx - 1) : box_order[i] = key

\* the pages the unit has a rectangle under
PagesOf(key) == {pg \in DOMAIN page_rectangles : key \in DOMAIN page_rectangles[pg]}

Kept(key) == PagesOf(key) # {}

Complete(key) == DOMAIN word_boxes[key] = Labels

\* abs(x0 + width - x1), in 1/TEX_POINT of a TeX point
Deviation(key) ==
    LET info == word_boxes[key]
        d    == (TEX_POINT \div SCALED_POINTS_PER_TEX_POINT) * (info["spxy"][2] - info["epxy"][2])
                  + info["pwhd"][2]
    IN  IF d < 0 THEN -d ELSE d

\* one PDF point is 803/800 of a TeX point
ToleranceInTex == (RATIO_DENOMINATOR * TEX_POINT) \div RATIO_NUMERATOR

Acceptable(key) ==
    /\ word_boxes[key]["spxy"][1] = word_boxes[key]["epxy"][1]
    /\ word_boxes[key]["spxy"][3] = word_boxes[key]["epxy"][3]
    /\ Deviation(key) <= ToleranceInTex

----------------------------------------------------------------------------
----------------------------------------------------------------------------
(* C22: in page_rectangles a unit the loop has kept stands under one page  *)
(* only, the page of its spxy line less one, with the rectangle            *)
(* (x0, sy + height, x1, sy - depth), height + depth high; every id of the *)
(* map is a complete unit the loop has gone past, and a unit that fails a  *)
(* test stands under no page.                                              *)
ExpectedRectangle(key) ==
    LET info == word_boxes[key]
        x0   == scaledPointsToPDFpoints(info["spxy"][2])
        sy   == scaledPointsToPDFpoints(info["spxy"][3])
        x1   == scaledPointsToPDFpoints(info["epxy"][2])
    IN  << x0, sy + texPointsToPDFpoints(info["pwhd"][3]),
           x1, sy - texPointsToPDFpoints(info["pwhd"][4]) >>

C22_OutputShape ==
    wb_pc \in {"rectangles", "returned", "raised"} =>
        /\ \A pg \in DOMAIN page_rectangles :
              /\ DOMAIN page_rectangles[pg] # {}
              /\ \A key \in DOMAIN page_rectangles[pg] :
                    /\ key \in DOMAIN word_boxes
                    /\ Decided(key) /\ Complete(key)
                    /\ PagesOf(key) = {pg}
                    /\ pg = word_boxes[key]["spxy"][1] - 1
                    /\ page_rectangles[pg][key] = ExpectedRectangle(key)
                    /\ page_rectangles[pg][key][2] - page_rectangles[pg][key][4] =
                          texPointsToPDFpoints(word_boxes[key]["pwhd"][3]
                                                + word_boxes[key]["pwhd"][4])
        /\ \A key \in DOMAIN word_boxes :
              (Complete(key) /\ ~Acceptable(key)) => PagesOf(key) = {}

\* getWordBoxes has returned a map of two pages, with a unit that is one
\* point deep in it and a unit that failed a test left out
C22_Witness ==
    /\ wb_pc = "returned"
    /\ DOMAIN page_rectangles = {0, 1}
    /\ \E key \in DOMAIN page_rectangles[0] : word_boxes[key]["pwhd"][4] = TEX_POINT
    /\ \E key \in DOMAIN word_boxes : Complete(key) /\ ~Kept(key)

----------------------------------------------------------------------------
(* The fields of a StableAnnotation over a step of getCorrections.         *)
SameButType(a, b) ==
    /\ b.pageno = a.pageno
    /\ b.info = a.info
    /\ b.xref = a.xref
    /\ b.irt_xref = a.irt_xref
    /\ b.rect = a.rect
    /\ b.intersecting_line_bb = a.intersecting_line_bb

OnlyTypePromoted ==
    pc \in {"responses", "correct"} =>
        \A pl \in StablePlaces :
            /\ SameButType(Deref(pl), stable_annots'[pl[1]][pl[2]])
            /\ stable_annots'[pl[1]][pl[2]].type # Deref(pl).type =>
                  /\ stable_annots'[pl[1]][pl[2]].type = "Replace"
                  /\ Deref(pl).irt_xref = 0

(* C23 as claimed: once the Stabilizer has returned, no step of            *)
(* getCorrections changes any field of any StableAnnotation but the type,  *)
(* and the type only of a root, to Replace.                                *)
C23_OnlyTypePromoted == [][OnlyTypePromoted]_vars

\* a Caret root has been promoted: it has the rectangle of the StrikeOut
\* in response to it and still the line box of its own rectangle
C23_Witness ==
    \E pl \in Roots :
        /\ Processed(pl)
        /\ Raw(pl).type = "Caret"
        /\ Deref(pl).type = "Replace"
        /\ Deref(pl).rect # StableRect(pl)
        /\ \E q \in Partners(pl) : Deref(pl).rect = Deref(q).rect
        /\ Deref(pl).intersecting_line_bb =
              highest_baseline_bb(Raw(pl).rect, doc[pl[1]].line_bbs)

----------------------------------------------------------------------------
(* C24 as claimed: a root that is one half of a StrikeOut and Caret pair,  *)
(* the other half its single response and intersecting it, with both       *)
(* comments empty or with the comment on the Caret and none on the         *)
(* StrikeOut, ends the run in an error: the loop never gets past it and no *)
(* Edit is made for it.                                                    *)
HalfOf(pl, type) ==
    IF Raw(pl).type = type THEN Raw(pl) ELSE Raw(CHOOSE q \in Partners(pl) : TRUE)

UnsupportedPair(pl) ==
    /\ Raw(pl).type \in {"StrikeOut", "Caret"}
    /\ Cardinality(ResponsesTo(pl)) = 1
    /\ Partners(pl) = ResponsesTo(pl)
    /\ \A q \in Partners(pl) : RectIntersects(StableRect(pl), StableRect(q))
    /\ \/ /\ HalfOf(pl, "StrikeOut").info.content = ""
          /\ HalfOf(pl, "Caret").info.content = ""
       \/ /\ HalfOf(pl, "Caret").info.content # ""
          /\ HalfOf(pl, "StrikeOut").info.content = ""

C24_UnsupportedPairsRejected ==
    \A pl \in Roots : UnsupportedPair(pl) =>
        /\ ~Processed(pl)
        /\ pc # "done"

\* the run is over without an error, with an Edit of type Replace for a
\* pair of two empty comments
C24_Witness ==
    /\ pc = "done"
    /\ \E pl \in Roots :
          /\ UnsupportedPair(pl)
          /\ Raw(pl).info.content = ""
          /\ \A q \in Partners(pl) : Raw(q).info.content = ""
          /\ EditOf(pl).type = "Replace"

----------------------------------------------------------------------------
(* C25 as claimed: segment goes past get_preamble_and_document only with   *)
(* one top-level environment named document; the node it marks is that     *)
(* environment and the preamble it returns the text of is that of the      *)
(* top-level nodes before it, in their order.                              *)
DocumentEnvs ==
    {i \in 1..Len(tex.nodelist) :
        tex.nodelist[i].kind = "env" /\ tex.nodelist[i].envname = "document"}

TheDocument == CHOOSE i \in DocumentEnvs : TRUE

PreambleBefore(i) ==
    join([k \in 1..(i - 1) |-> tex.nodelist[k].verbatim])

C25_PreambleDocumentSplit ==
    /\ seg_pc \in {"mark", "pdflatex_orig", "pdflatex_marked", "diffpdf", "returned"} =>
          /\ Cardinality(DocumentEnvs) = 1
          /\ get_preamble_and_document(tex.nodelist).document_node = tex.nodelist[TheDocument]
          /\ get_preamble_and_document(tex.nodelist).preamble_nodes =
                SubSeq(tex.nodelist, 1, TheDocument - 1)
    /\ marked # None =>
          /\ Cardinality(DocumentEnvs) = 1
          /\ Payloads(marked_document) = tex.nodelist[TheDocument].verbatim
    /\ ret # None =>
          ret[1] = PreambleBefore(TheDocument) \o MarkDefinitions \o marked_document
    /\ (seg_pc \notin {"idle", "parse", "metadata"} /\ Cardinality(DocumentEnvs) # 1) =>
          (seg_pc = "exit" /\ calls = <<>> /\ marked = None)

\* segment has returned for a source with a filecontents environment before
\* its one document environment: what it marked is the filecontents
\* environment, and the document is not in the text it returns
C25_Witness ==
    /\ seg_pc = "returned"
    /\ Cardinality(DocumentEnvs) = 1
    /\ tex.nodelist[TheDocument].nodelist # <<>>
    /\ \E i \in 1..(TheDocument - 1) :
          /\ tex.nodelist[i].kind = "env"
          /\ tex.nodelist[i].envname = "filecontents"
          /\ marked_document = tex.nodelist[i].verbatim
    /\ ret[1] # PreambleBefore(TheDocument) \o MarkDefinitions \o marked_document

----------------------------------------------------------------------------
(* C26: when markNode returns, its output with every \markbox{id}{X}       *)
(* replaced by X is the verbatim source of the node it was given; and X is *)
(* either one run of letters that has a blank before it and a blank after  *)
(* it in the source, under an id without "m", or the whole of an inline    *)
(* formula of the tree, under an id with "m".                              *)
RECURSIVE InlineFormulas(_, _), InlineFormulasInList(_, _)

\* <<position, verbatim>> of every inline formula below the node, the node
\* being at position start of the source
InlineFormulas(node, start) ==
    IF node.kind = "math" /\ node.displaytype = "inline"
    THEN {<<start, node.verbatim>>}
    ELSE IF node.kind = "env"
    THEN InlineFormulasInList(node.nodelist, start + 1)
    ELSE {}

InlineFormulasInList(nodelist, start) ==
    IF nodelist = <<>> THEN {}
    ELSE InlineFormulas(Head(nodelist), start)
            \cup InlineFormulasInList(Tail(nodelist), start + Len(Head(nodelist).verbatim))

WholeWord(i) ==
    LET source == documentNode.verbatim
        at     == SourcePos(i)
    IN  /\ ~marked_document[i].m
        /\ Len(marked_document[i].arg) = 1
        /\ marked_document[i].arg[1].s \in Letters
        /\ source[at] = marked_document[i].arg[1]
        /\ at > 1 /\ source[at - 1].s \in Whitespace
        /\ at < Len(source) /\ source[at + 1].s \in Whitespace

WholeFormula(i) ==
    /\ marked_document[i].m
    /\ <<SourcePos(i), marked_document[i].arg>> \in InlineFormulas(documentNode, 1)

C26_ContentPreserved ==
    marked # None =>
        /\ Payloads(marked_document) = documentNode.verbatim
        /\ \A i \in Markboxes : WholeWord(i) \/ WholeFormula(i)

\* a marked document with a marked word, a marked formula, and a word that
\* is left as it is because a comma follows it
C26_Witness ==
    /\ marked # None
    /\ \E i \in Markboxes : WholeWord(i)
    /\ \E i \in Markboxes : WholeFormula(i)
    /\ \E i \in 1..Len(marked_document) :
          /\ marked_document[i].s \in Letters
          /\ i < Len(marked_document)
          /\ marked_document[i + 1].s = ","

----------------------------------------------------------------------------
(* C27 as claimed: when getCorrections completes, the comment of every     *)
(* annotation of a root's thread, a response to the root or a response to  *)
(* a response, of whatever type, is in the message of the root's Edit.     *)
RECURSIVE ThreadFrom(_)
ThreadFrom(S) ==
    LET T == S \cup UNION {ResponsesTo(q) : q \in S}
    IN  IF T = S THEN S ELSE ThreadFrom(T)

\* the annotations in response to the root or to one of its thread
Thread(pl) == ThreadFrom(ResponsesTo(pl))

InMessage(content, edit) ==
    \/ content = edit.message.comment
    \/ \E i \in 1..Len(edit.message.responses) : edit.message.responses[i] = content

C27_NoCommentLost ==
    pc = "done" =>
        \A pl \in Roots : \A q \in Thread(pl) :
            Raw(q).info.content # "" => InMessage(Raw(q).info.content, EditOf(pl))

\* the run is over: a note answers a note that answers the root, and its
\* comment is in no Edit
C27_Witness ==
    /\ pc = "done"
    /\ \E pl \in Roots : \E q \in ResponsesTo(pl) : \E r \in ResponsesTo(q) :
          /\ Raw(q).type = "Text"
          /\ Raw(r).type = "Text"
          /\ Raw(r).info.content # ""
          /\ \A k \in 1..Len(corrections) : ~InMessage(Raw(r).info.content, corrections[k])

----------------------------------------------------------------------------
(* C28: the Edits made so far are those of the roots in the order of the   *)
(* pages and, on a page, of the annotations of the page: the k-th Edit has *)
(* the page and the comment of the k-th root.  So the page numbers of the  *)
(* Edits never decrease, each is a page of the document, and the document  *)
(* cut down to that page, as the tests do it, has one page.                *)
RECURSIVE PlacesFrom(_)
PlacesFrom(p) ==
    IF p >= len_doc THEN <<>>
    ELSE [i \in 1..Len(doc[p].annots) |-> <<p, i>>] \o PlacesFrom(p + 1)

RootsInOrder == SelectSeq(PlacesFrom(0), LAMBDA pl : Raw(pl).irt_xref = 0)

\* doc.page_count after "delete_pages(from_page = pageno + 1)" and
\* "delete_pages(from_page = 0, to_page = pageno - 1)"
IsolatedPageCount(page_count, edit_pageno) ==
    LET after == IF edit_pageno < page_count - 1
                 THEN edit_pageno + 1
                 ELSE page_count
    IN  IF edit_pageno >= 1 THEN after - edit_pageno ELSE after

C28_EditOrder ==
    Stabilized =>
        /\ Len(corrections) <= Len(RootsInOrder)
        /\ pc = "done" => Len(corrections) = Len(RootsInOrder)
        /\ \A k \in 1..Len(corrections) :
              /\ corrections[k].pageno = RootsInOrder[k][1]
              /\ corrections[k].message.comment = Raw(RootsInOrder[k]).info.content
              /\ corrections[k].pageno \in 0..(len_doc - 1)
              /\ IsolatedPageCount(len_doc, corrections[k].pageno) = 1
        /\ \A k, l \in 1..Len(corrections) :
              k < l => corrections[k].pageno <= corrections[l].pageno

\* four roots, two on each page: the Edits of annotations 1 and 3 come
\* before those of annotations 2 and 4
C28_Witness ==
    /\ pc = "done"
    /\ Len(corrections) = 4
    /\ [k \in 1..4 |-> corrections[k].pageno] = <<0, 0, 1, 1>>
    /\ [k \in 1..4 |-> Raw(RootsInOrder[k]).xref] = <<1, 3, 2, 4>>
    /\ corrections[2].message.comment # corrections[3].message.comment

====
